---- MODULE Spec2Model ----
(***************************************************************************)
(* Plan execution engine of cosmic-gao/codex: the progress store and its   *)
(* authoritative writer (ProgressWriter / writeStepStatus), the explicit   *)
(* progress tracker (PlanProgressTracker), and the single-step executor    *)
(* (runStep in route.ts, StepExecutor.runStep).                            *)
(*                                                                         *)
(* Conventions: step index i of the code is position i + 1 of a TLA+       *)
(* sequence.  An optional number that is undefined is Undefined (-1), an   *)
(* optional string that is undefined is NoMessage.                         *)
(***************************************************************************)
EXTENDS Integers, Sequences, FiniteSets, TLC

VARIABLES
    store,            \* Map<string, PlanProgress>: a function on the known ids
    emittedPlanIds,   \* Set<string> guarding the snapshot emission
    clock,            \* the value Date.now() returns
    out,              \* dataStream.write calls made by the operation just run
    last,             \* the operation just run and its arguments
    snapshotWrites,   \* per plan id, how many plan/outline snapshots were written
    tracker,          \* fields of PlanProgressTracker
    exec,             \* locals of the runStep call in flight
    orch,             \* locals of the step loop of the request handler
    signal,           \* request.signal.aborted
    calls,            \* how many calls the writer or the tracker has handled
    toolset,          \* vercelAITooles and the tools handed to the model call
    gen,              \* locals of the outline generation call
    text,             \* text locals of runStep and the message list of the step loop
    validated         \* the argument and the result of a validateOutline call

vars == <<store, emittedPlanIds, clock, out, last, snapshotWrites, tracker, exec, orch, signal,
          calls, toolset, gen, text, validated>>

----------------------------------------------------------------------------
(* Bounds *)

MaxIndex == 2         \* step indices written are 0..MaxIndex
MaxClock == 2         \* Date.now() ranges over 1..MaxClock
MaxPlanSteps == 2     \* planData.steps has 0..MaxPlanSteps entries
MaxEvents == 3        \* events one model stream delivers before it ends
MaxToolCalls == 1     \* tool names recorded on one step
MaxOutlineSteps == 3  \* steps of an outline or plan the orchestrator executes
MaxCalls == 4         \* calls made on one ProgressWriter
MaxTrackerCalls == 3  \* tool-input chunks handed to the tracker in one request
MaxTextSteps == 3     \* steps of an outline whose streams carry text
MaxTextEvents == 2    \* events one stream with text delivers before it ends
MaxBufferEvents == 3  \* events the stream of a step that fills the buffer delivers
MaxTextLength == 3    \* characters a run keeps before its streams carry no more text
MaxValidatedSteps == 16  \* steps of an outline handed to validateOutline

----------------------------------------------------------------------------
(* Values *)

Undefined == -1
NoMessage == "<undefined>"
NoPlan == "<undefined>"
NoTool == "<undefined>"
NoStatus == "<undefined>"
NoCalls == <<NoTool>>       \* toolCalls: undefined, as opposed to the empty list
NoActions == <<[label |-> NoMessage, value |-> NoMessage]>>   \* actions: undefined

PlanIds == {"plan-a", "plan-b"}
SnapshotIds == {"plan-a"}
Statuses == {"pending", "in_progress", "completed", "failed"}
WriteStatuses == {"in_progress", "completed", "failed"}
ErrorMessages == {NoMessage, "boom"}
SnapshotTypes == {"data-outline", "data-plan"}

ABORT_ERROR_MESSAGE == "aborted"

\* JavaScript truthiness of an optional number: undefined and 0 are falsy.
Truthy(n) == n # Undefined /\ n # 0

Min(a, b) == IF a < b THEN a ELSE b

----------------------------------------------------------------------------
(* Progress record *)

PendingStep ==
    [status |-> "pending", startTime |-> Undefined, endTime |-> Undefined,
     toolCalls |-> NoCalls, errorMessage |-> NoMessage]

\* growSteps with the loop test off by one
growStepsLong(steps, stepIndex) ==
    IF Len(steps) <= stepIndex + 1
    THEN steps \o [k \in 1..(stepIndex + 2 - Len(steps)) |-> PendingStep]
    ELSE steps

\* while (current.steps.length <= stepIndex) current.steps.push(pending)
growSteps(steps, stepIndex) ==
    IF Len(steps) <= stepIndex
    THEN steps \o [k \in 1..(stepIndex + 1 - Len(steps)) |-> PendingStep]
    ELSE steps

\* clearStale without the loop
clearStaleNone(steps, stepIndex) == steps

\* clearStale with the status test dropped: every other started step is reset
clearStaleAll(steps, stepIndex) ==
    [k \in 1..Len(steps) |->
        IF k # stepIndex + 1 /\ steps[k].status # "pending"
        THEN [steps[k] EXCEPT !.status = "pending",
                              !.startTime = Undefined,
                              !.endTime = Undefined]
        ELSE steps[k]]

\* the loop clearing every other in_progress step
clearStale(steps, stepIndex) ==
    [k \in 1..Len(steps) |->
        IF k # stepIndex + 1 /\ steps[k].status = "in_progress"
        THEN [steps[k] EXCEPT !.status = "pending",
                              !.startTime = Undefined,
                              !.endTime = Undefined]
        ELSE steps[k]]

\* inheritStart without the inheritance
inheritStartNow(steps, stepIndex, now) == now

\* let startTime = now; if (stepIndex > 0 && prevStep?.endTime) startTime = prevStep.endTime
inheritStart(steps, stepIndex, now) ==
    IF stepIndex > 0 /\ Truthy(steps[stepIndex].endTime)
    THEN steps[stepIndex].endTime
    ELSE now

\* newSnapshot that points at step 0 whether or not there is one
newSnapshotZeroIndex(planId, n) ==
    [planId |-> planId,
     steps |-> [k \in 1..n |-> PendingStep],
     currentStepIndex |-> 0]

\* newSnapshot that leaves currentStepIndex undefined
newSnapshotNoIndex(planId, n) ==
    [planId |-> planId,
     steps |-> [k \in 1..n |-> PendingStep],
     currentStepIndex |-> Undefined]

\* the snapshot writeSnapshot stores for planData with n steps
newSnapshot(planId, n) ==
    [planId |-> planId,
     steps |-> [k \in 1..n |-> PendingStep],
     currentStepIndex |-> IF n > 0 THEN 0 ELSE Undefined]

\* startStep without endTime: undefined
startStepKeepsEnd(prev, startTime) ==
    [prev EXCEPT !.status = "in_progress", !.startTime = startTime,
                 !.errorMessage = NoMessage]

\* the step object written for in_progress
startStep(prev, startTime) ==
    [prev EXCEPT !.status = "in_progress", !.startTime = startTime,
                 !.endTime = Undefined, !.errorMessage = NoMessage]

\* the step object written for completed
completeStep(prev, now) ==
    [prev EXCEPT !.status = "completed", !.endTime = now, !.errorMessage = NoMessage]

\* failStep that does not store the message
failStepNoMessage(prev, now, errorMessage) ==
    [prev EXCEPT !.status = "failed", !.endTime = now]

\* the step object written for failed
failStep(prev, now, errorMessage) ==
    [prev EXCEPT !.status = "failed", !.endTime = now, !.errorMessage = errorMessage]

\* nextIndex without the bounds test
nextIndexUnchecked(steps, stepIndex) == stepIndex + 1

\* nextIndex = stepIndex + 1 < steps.length ? stepIndex + 1 : undefined
nextIndex(steps, stepIndex) ==
    IF stepIndex + 1 < Len(steps) THEN stepIndex + 1 ELSE Undefined

\* The record writeStepStatus leaves in the store for a known plan.
writeStepStatus(current, stepIndex, status, errorMessage, now) ==
    LET grown == growSteps(current.steps, stepIndex)
        prev == grown[stepIndex + 1]
    IN  IF status = "in_progress"
        THEN LET cleared == clearStale(grown, stepIndex)
             IN  [current EXCEPT
                    !.steps = [cleared EXCEPT ![stepIndex + 1] =
                                startStep(prev, inheritStart(cleared, stepIndex, now))],
                    !.currentStepIndex = stepIndex]
        ELSE IF status = "completed"
        THEN [current EXCEPT
                !.steps = [grown EXCEPT ![stepIndex + 1] = completeStep(prev, now)],
                !.currentStepIndex = nextIndex(grown, stepIndex)]
        ELSE [current EXCEPT
                !.steps = [grown EXCEPT ![stepIndex + 1] = failStep(prev, now, errorMessage)],
                !.currentStepIndex = Undefined]

ProgressEvent(planId, record) ==
    [type |-> "data-plan-progress", id |-> planId, data |-> record]

\* what a progress event shows of its snapshot: the status of every step and
\* currentStepIndex
shown(record) ==
    [statuses |-> [k \in 1..Len(record.steps) |-> record.steps[k].status],
     currentStepIndex |-> record.currentStepIndex]

\* the run's log of progress events, after the writes of one action
logged(o, writes) ==
    LET progress == SelectSeq(writes, LAMBDA w : w.type = "data-plan-progress")
    IN  [o EXCEPT !.progressLog = @ \o [k \in 1..Len(progress) |-> shown(progress[k].data)]]

PlanEvent(type, planId, n) ==
    [type |-> type, id |-> planId, data |-> newSnapshot(planId, n)]

Known(planId) == planId \in DOMAIN store

Put(planId, record) ==
    [q \in (DOMAIN store) \cup {planId} |-> IF q = planId THEN record ELSE store[q]]

----------------------------------------------------------------------------
(* Idle values of the components a specification does not exercise *)

IdleTracker ==
    [activePlanId |-> NoPlan, isExplicitMode |-> FALSE,
     activeStepIndex |-> Undefined, isStopped |-> FALSE, toolNames |-> {}]

IdleExec ==
    [impl |-> "route", pc |-> "idle", planId |-> NoPlan, stepIndex |-> 0,
     emitText |-> FALSE, ownAbort |-> FALSE, linked |-> FALSE,
     finalStatus |-> "completed", finalErrorMessage |-> NoMessage,
     nread |-> 0, toolName |-> NoTool, writes |-> <<>>, result |-> "none",
     forbidden |-> NoTool, toolError |-> NoMessage]

IdleOrch ==
    [pc |-> "idle", planId |-> NoPlan, n |-> 0, i |-> 0, activePlanId |-> NoPlan,
     abortedAt |-> "never", abortedStep |-> Undefined, progressLog |-> <<>>]

NoCall == [op |-> "none"]

IdleToolset == [caps |-> {}, path |-> "none", tools |-> {}]

\* Strings whose characters matter are sequences of one-character strings;
\* NoText is such a string that is undefined.
NoText == <<"<undefined>">>

\* the messages of the request: one user message
Conversation == <<[role |-> "user", text |-> <<"q">>]>>

IdleGen ==
    [pc |-> "idle", nread |-> 0, ownAbort |-> FALSE, outlineId |-> NoPlan,
     titleLength |-> Undefined, steps |-> Undefined, valid |-> FALSE]

IdleText ==
    [fullTextAccumulator |-> <<>>, textBuffer |-> <<>>, textOutput |-> <<>>,
     received |-> <<>>, emitted |-> <<>>,
     messages |-> Conversation, stepMessages |-> Conversation,
     context |-> Conversation, outputs |-> <<>>]

IdleValidated ==
    [pc |-> "none",
     outline |-> [titleLength |-> Undefined, hasSteps |-> FALSE, steps |-> <<>>],
     result |-> [valid |-> FALSE, errors |-> <<>>]]

----------------------------------------------------------------------------
(* ProgressWriter *)

\* Date.now() advances between calls
Tick ==
    /\ clock < MaxClock
    /\ clock' = clock + 1
    /\ out' = <<>>
    /\ last' = [op |-> "tick"]
    /\ UNCHANGED <<store, emittedPlanIds, snapshotWrites, tracker, exec, orch, signal, calls, toolset, gen, text, validated>>

\* SnapshotWrite without the emittedPlanIds test
SnapshotWriteAlways(planId, n, type) ==
    /\ last' = [op |-> "writeSnapshot", planId |-> planId,
                seen |-> planId \in emittedPlanIds]
    /\ emittedPlanIds' = emittedPlanIds \cup {planId}
    /\ store' = Put(planId, newSnapshot(planId, n))
    /\ out' = <<PlanEvent(type, planId, n),
                ProgressEvent(planId, newSnapshot(planId, n))>>
    /\ snapshotWrites' = [snapshotWrites EXCEPT ![planId] = Min(@ + 1, 2)]

\* writeSnapshot(planId, planData, type) with planData.steps of length n:
\* ProgressWriter.writeSnapshot, and writeOutlineSnapshot / writePlanSnapshot of
\* the request handler, which differ only in the event type they emit.
SnapshotWrite(planId, n, type) ==
    /\ last' = [op |-> "writeSnapshot", planId |-> planId,
                seen |-> planId \in emittedPlanIds]
    /\ IF planId \in emittedPlanIds
       THEN /\ out' = <<>>
            /\ UNCHANGED <<store, emittedPlanIds, snapshotWrites>>
       ELSE /\ emittedPlanIds' = emittedPlanIds \cup {planId}
            /\ store' = Put(planId, newSnapshot(planId, n))
            /\ out' = <<PlanEvent(type, planId, n),
                        ProgressEvent(planId, newSnapshot(planId, n))>>
            /\ snapshotWrites' = [snapshotWrites EXCEPT ![planId] = Min(@ + 1, 2)]

\* StatusWrite that creates the record of an unknown plan instead of returning
StatusWriteUpsert(planId, stepIndex, status, errorMessage) ==
    LET current == IF Known(planId) THEN store[planId] ELSE newSnapshot(planId, 0)
        next == writeStepStatus(current, stepIndex, status, errorMessage, clock)
    IN  /\ last' = IF Known(planId)
                   THEN [op |-> "writeStepStatus", planId |-> planId, known |-> TRUE,
                         stepIndex |-> stepIndex, status |-> status,
                         preLen |-> Len(store[planId].steps),
                         stale |-> {k \in 0..(Len(store[planId].steps) - 1) :
                                        k # stepIndex
                                        /\ store[planId].steps[k + 1].status = "in_progress"}]
                   ELSE [op |-> "writeStepStatus", planId |-> planId, known |-> FALSE]
        /\ store' = Put(planId, next)
        /\ out' = <<ProgressEvent(planId, next)>>

\* StatusWrite that emits the record as it was before the mutation
StatusWriteStale(planId, stepIndex, status, errorMessage) ==
    /\ last' = IF Known(planId)
               THEN [op |-> "writeStepStatus", planId |-> planId, known |-> TRUE,
                     stepIndex |-> stepIndex, status |-> status,
                     preLen |-> Len(store[planId].steps),
                     stale |-> {k \in 0..(Len(store[planId].steps) - 1) :
                                    k # stepIndex
                                    /\ store[planId].steps[k + 1].status = "in_progress"}]
               ELSE [op |-> "writeStepStatus", planId |-> planId, known |-> FALSE]
    /\ IF ~Known(planId)
       THEN /\ out' = <<>>
            /\ UNCHANGED store
       ELSE LET next == writeStepStatus(store[planId], stepIndex, status, errorMessage, clock)
            IN  /\ store' = Put(planId, next)
                /\ out' = <<ProgressEvent(planId, store[planId])>>

\* writeStepStatus(payload): the early return for an unknown plan, else the
\* mutation, store.set and the progress event.
StatusWrite(planId, stepIndex, status, errorMessage) ==
    /\ last' = IF Known(planId)
               THEN [op |-> "writeStepStatus", planId |-> planId, known |-> TRUE,
                     stepIndex |-> stepIndex, status |-> status,
                     preLen |-> Len(store[planId].steps),
                     stale |-> {k \in 0..(Len(store[planId].steps) - 1) :
                                    k # stepIndex
                                    /\ store[planId].steps[k + 1].status = "in_progress"}]
               ELSE [op |-> "writeStepStatus", planId |-> planId, known |-> FALSE]
    /\ IF ~Known(planId)
       THEN /\ out' = <<>>
            /\ UNCHANGED store
       ELSE LET next == writeStepStatus(store[planId], stepIndex, status, errorMessage, clock)
            IN  /\ store' = Put(planId, next)
                /\ out' = <<ProgressEvent(planId, next)>>

WriteSnapshotCall(planId, n, type) ==
    /\ calls < MaxCalls
    /\ calls' = calls + 1
    /\ SnapshotWrite(planId, n, type)
    /\ UNCHANGED <<clock, tracker, exec, orch, signal, toolset, gen, text, validated>>

WriteStepStatusCall(planId, stepIndex, status, errorMessage) ==
    /\ calls < MaxCalls
    /\ calls' = calls + 1
    /\ StatusWrite(planId, stepIndex, status, errorMessage)
    /\ UNCHANGED <<emittedPlanIds, clock, snapshotWrites, tracker, exec, orch, signal, toolset, gen, text, validated>>

----------------------------------------------------------------------------
(* Progress writer driven by arbitrary callers *)

WriterInit ==
    /\ store = <<>>
    /\ emittedPlanIds = {}
    /\ clock = 1
    /\ out = <<>>
    /\ last = NoCall
    /\ snapshotWrites = [p \in PlanIds |-> 0]
    /\ tracker = IdleTracker
    /\ exec = IdleExec
    /\ orch = IdleOrch
    /\ signal = FALSE
    /\ calls = 0
    /\ toolset = IdleToolset
    /\ gen = IdleGen
    /\ text = IdleText
    /\ validated = IdleValidated

WriterSnapshotStep ==
    \E planId \in SnapshotIds, n \in 0..MaxPlanSteps, type \in SnapshotTypes :
        WriteSnapshotCall(planId, n, type)

WriterStatusStep ==
    \E planId \in PlanIds, stepIndex \in 0..MaxIndex,
       status \in WriteStatuses, errorMessage \in ErrorMessages :
        /\ status # "failed" => errorMessage = NoMessage
        /\ WriteStepStatusCall(planId, stepIndex, status, errorMessage)

WriterNext == Tick \/ WriterSnapshotStep \/ WriterStatusStep

SpecWriter == WriterInit /\ [][WriterNext]_vars

----------------------------------------------------------------------------
(* Step executor: runStep of the request handler and StepExecutor.runStep *)

ToolNames == {"search", "outline", "plan", "progress"}
forbiddenTools == {"outline", "plan", "progress"}
Impls == {"route", "executor"}

\* The chunks a step's stream delivers.  textDelta and text are strings, or
\* NoText when the chunk has no such string field.  Here every text-delta
\* carries the empty string; TextStreamEvents below carries text.
StreamEvents ==
    [type : {"tool-input-available"}, toolName : ToolNames, errorText : {NoMessage},
     textDelta : {NoText}, text : {NoText}]
    \cup [type : {"tool-output-available", "finish"},
          toolName : {NoTool}, errorText : {NoMessage}, textDelta : {NoText}, text : {NoText}]
    \cup [type : {"text-delta"},
          toolName : {NoTool}, errorText : {NoMessage}, textDelta : {<<>>}, text : {NoText}]
    \cup [type : {"tool-output-error"}, toolName : {NoTool}, errorText : {"tool failed"},
          textDelta : {NoText}, text : {NoText}]

\* chunks with text: text-delta chunks with and without a string textDelta, a
\* text chunk, and the chunks that end a step early
TextStreamEvents ==
    [type : {"text-delta"}, toolName : {NoTool}, errorText : {NoMessage},
     textDelta : {NoText, <<" ", "x">>, <<"y", "\n">>}, text : {NoText}]
    \cup [type : {"text"}, toolName : {NoTool}, errorText : {NoMessage},
          textDelta : {NoText}, text : {<<"z">>}]
    \cup [type : {"finish"}, toolName : {NoTool}, errorText : {NoMessage},
          textDelta : {NoText}, text : {NoText}]
    \cup [type : {"tool-output-error"}, toolName : {NoTool}, errorText : {"tool failed"},
          textDelta : {NoText}, text : {NoText}]

\* getTextDelta(chunk): the request handler also takes the text of a text chunk
getTextDelta(impl, ev) ==
    IF ev.type = "text-delta" /\ ev.textDelta # NoText THEN ev.textDelta
    ELSE IF impl = "route" /\ ev.type = "text" /\ ev.text # NoText THEN ev.text
    ELSE NoText

\* the pass ends at the continue of the text branch: a delta of a step that
\* does not emit text
textContinue(x, ev) == getTextDelta(x.impl, ev) # NoText /\ ~x.emitText

Whitespace == {" ", "\n"}

\* String.prototype.trim
trim(str) ==
    LET kept == {k \in 1..Len(str) : str[k] \notin Whitespace}
    IN  IF kept = {} THEN <<>>
        ELSE SubSeq(str, CHOOSE k \in kept : \A j \in kept : k <= j,
                         CHOOSE k \in kept : \A j \in kept : k >= j)

\* delta.includes('\n')
includesNewline(delta) == \E k \in 1..Len(delta) : delta[k] = "\n"

\* currentBuffer.length > 20
flushLength == 20

forbiddenMessage(toolName) ==
    CASE toolName = "outline" ->
            "Forbidden tool usage: outline (progress is managed automatically)"
      [] toolName = "plan" ->
            "Forbidden tool usage: plan (progress is managed automatically)"
      [] OTHER ->
            "Forbidden tool usage: progress (progress is managed automatically)"

\* stepAbortFired for a controller that does not listen to the parent signal
stepAbortFiredDetached(x) == x.ownAbort

\* stepAbort.signal.aborted: aborted by runStep itself, or by the parent
\* signal the controller listens to
stepAbortFired(x) == x.ownAbort \/ (x.linked /\ signal)

\* isStepAborted() of the request handler: stepAbort.signal.aborted || isAborted()
routeIsStepAborted(x) == stepAbortFired(x) \/ signal

\* isStepAborted() of StepExecutor: stepAbort.signal.aborted
executorIsStepAborted(x) == stepAbortFired(x)

StepOutputEvent(x, toolName) ==
    [type |-> "data-plan-step-output", id |-> x.planId,
     data |-> [stepIndex |-> x.stepIndex, toolName |-> toolName]]

\* the tool-input-available branch up to the forbidden-tool check
recordToolInput(x, ev, abortOnForbidden) ==
    IF ev.type # "tool-input-available" THEN x
    ELSE IF ev.toolName \in forbiddenTools
    THEN [x EXCEPT !.toolName = ev.toolName,
                   !.finalStatus = "failed",
                   !.finalErrorMessage = forbiddenMessage(ev.toolName),
                   !.ownAbort = @ \/ abortOnForbidden]
    ELSE [x EXCEPT !.toolName = ev.toolName]

\* One pass of the while loop of runStep in the request handler, for the value
\* ev the reader delivered: the locals after it, pc = "final" when it left the loop.
routeOnEvent(x, ev) ==
    LET y == [recordToolInput(x, ev, FALSE) EXCEPT !.nread = @ + 1]
    IN  IF ev.type = "tool-output-error"
        THEN [y EXCEPT !.finalStatus = "failed",
                       !.finalErrorMessage = ev.errorText,
                       !.pc = "final"]
        ELSE IF textContinue(x, ev)
        THEN y
        ELSE IF routeIsStepAborted(y)
        THEN [y EXCEPT !.finalStatus = "aborted",
                       !.finalErrorMessage = ABORT_ERROR_MESSAGE,
                       !.pc = "final"]
        ELSE y

\* The same pass in StepExecutor.runStep.
executorOnEvent(x, ev) ==
    LET y == [recordToolInput(x, ev, TRUE) EXCEPT !.nread = @ + 1]
        z == IF ev.type = "tool-output-error"
             THEN [y EXCEPT !.finalStatus = "failed",
                            !.finalErrorMessage = ev.errorText,
                            !.ownAbort = TRUE]
             ELSE y
    IN  IF textContinue(x, ev)
        THEN z
        ELSE IF executorIsStepAborted(z)
        THEN [z EXCEPT !.finalStatus = "aborted",
                       !.finalErrorMessage = "Aborted",
                       !.pc = "final"]
        ELSE z

\* dataStream writes of one pass of the loop
eventWrites(x, ev) ==
    (IF ev.type \in {"tool-output-available", "tool-output-error"} /\ x.toolName # NoTool
     THEN <<StepOutputEvent(x, x.toolName)>> ELSE <<>>)
    \o (IF textContinue(x, ev)
           \/ (x.impl = "executor" /\ ev.type = "text-delta" /\ ~x.emitText)
        THEN <<>>
        ELSE <<[type |-> ev.type, id |-> x.planId, data |-> ev]>>)

\* writeStepOutput({toolName: "assistant", output})
AssistantOutputEvent(x, output) ==
    [type |-> "data-plan-step-output", id |-> x.planId,
     data |-> [stepIndex |-> x.stepIndex, toolName |-> "assistant", output |-> output]]

\* textFlushes that looks for a newline only
textFlushesOnNewline(t, x, ev) ==
    LET delta == getTextDelta(x.impl, ev)
    IN  /\ delta # NoText
        /\ ~x.emitText
        /\ includesNewline(delta)

\* the text branch of one pass: the delta is pushed to the buffer and added to
\* the accumulator; in a step that does not emit text the buffer is written
\* out and emptied when it is longer than flushLength or the delta has a newline
textFlushes(t, x, ev) ==
    LET delta == getTextDelta(x.impl, ev)
    IN  /\ delta # NoText
        /\ ~x.emitText
        /\ (Len(t.textBuffer \o delta) > flushLength \/ includesNewline(delta))

textOnEvent(t, x, ev) ==
    LET delta == getTextDelta(x.impl, ev)
    IN  IF delta = NoText \/ (x.impl = "route" /\ ev.type = "tool-output-error")
        THEN t
        ELSE [t EXCEPT !.fullTextAccumulator = @ \o delta,
                       !.received = @ \o delta,
                       !.textBuffer = IF textFlushes(t, x, ev) THEN <<>> ELSE @ \o delta,
                       !.emitted = IF textFlushes(t, x, ev)
                                   THEN @ \o t.textBuffer \o delta ELSE @]

textWrites(t, x, ev) ==
    IF textFlushes(t, x, ev)
    THEN <<AssistantOutputEvent(x, t.textBuffer \o getTextDelta(x.impl, ev))>>
    ELSE <<>>

\* after the read loop: the rest of the buffer is written out and the trimmed
\* accumulator becomes the output
afterLoop(t, x) ==
    [t EXCEPT !.emitted = IF Len(t.textBuffer) > 0 /\ ~x.emitText
                          THEN @ \o t.textBuffer ELSE @,
              !.textOutput = trim(t.fullTextAccumulator)]

afterLoopWrites(t, x) ==
    IF Len(t.textBuffer) > 0 /\ ~x.emitText
    THEN <<AssistantOutputEvent(x, t.textBuffer)>>
    ELSE <<>>

\* the locals of a new runStep call, given the message list of the loop
beginText(t) ==
    [t EXCEPT !.fullTextAccumulator = <<>>, !.textBuffer = <<>>, !.textOutput = <<>>,
              !.received = <<>>, !.emitted = <<>>, !.context = t.stepMessages]

\* returnText that pushes onto the list of the request
returnTextShared(t, x) ==
    IF x.result # "completed" THEN t
    ELSE [t EXCEPT !.outputs = Append(@, t.textOutput),
                   !.stepMessages = IF Len(t.textOutput) > 0
                                    THEN Append(@, [role |-> "assistant", text |-> t.textOutput])
                                    ELSE @,
                   !.messages = IF Len(t.textOutput) > 0
                                THEN Append(@, [role |-> "assistant", text |-> t.textOutput])
                                ELSE @]

\* the loop after a completed step: a non-empty output becomes an assistant
\* message of stepMessages
returnText(t, x) ==
    IF x.result # "completed" THEN t
    ELSE [t EXCEPT !.outputs = Append(@, t.textOutput),
                   !.stepMessages = IF Len(t.textOutput) > 0
                                    THEN Append(@, [role |-> "assistant", text |-> t.textOutput])
                                    ELSE @]

\* catchError that rethrows: runStep ends without reaching the terminal write
catchErrorRethrows(x, message) ==
    [x EXCEPT !.finalStatus = "failed", !.finalErrorMessage = message,
              !.pc = "returned", !.result = "failed"]

\* catchError that drops the exception's message
catchErrorGeneric(x, message) ==
    [x EXCEPT !.finalStatus = "failed", !.finalErrorMessage = "Unknown error", !.pc = "final"]

\* the catch block of runStep
catchError(x, message) ==
    [x EXCEPT !.finalStatus = "failed", !.finalErrorMessage = message, !.pc = "final"]

\* the status of the terminal write: completed, else failed
terminalStatus(finalStatus) ==
    IF finalStatus = "completed" THEN "completed" ELSE "failed"

\* request.signal fires; the handler's listener stops the progress tracker
Abort ==
    /\ ~signal
    /\ orch.pc # "done"
    /\ signal' = TRUE
    /\ tracker' = IF exec.impl = "route" THEN [tracker EXCEPT !.isStopped = TRUE] ELSE tracker
    /\ orch' = [orch EXCEPT !.abortedAt = IF orch.pc = "step" THEN exec.pc ELSE orch.pc,
                            !.abortedStep = IF orch.pc \in {"loop", "step"} THEN orch.i
                                            ELSE Undefined]
    /\ out' = <<>>
    /\ last' = [op |-> "abort"]
    /\ UNCHANGED <<store, emittedPlanIds, clock, snapshotWrites, exec, calls, toolset, gen, text, validated>>

\* an outline with n steps is accepted: its snapshot is written and the loop starts
AcceptOutline(planId, n) ==
    /\ orch.pc = "idle"
    /\ SnapshotWrite(planId, n, "data-outline")
    /\ orch' = logged([orch EXCEPT !.pc = "loop", !.planId = planId, !.n = n, !.i = 0,
                                   !.activePlanId = planId], out')
    /\ tracker' = IF exec.impl = "route"
                  THEN [tracker EXCEPT !.activePlanId = planId]
                  ELSE tracker
    /\ UNCHANGED <<clock, exec, signal, calls, toolset, text, validated>>

\* the legacy plan path: a plan with n steps is accepted, its snapshot is
\* written and the loop starts
AcceptPlan(planId, n) ==
    /\ orch.pc = "idle"
    /\ SnapshotWrite(planId, n, "data-plan")
    /\ orch' = logged([orch EXCEPT !.pc = "loop", !.planId = planId, !.n = n, !.i = 0,
                                   !.activePlanId = planId], out')
    /\ tracker' = IF exec.impl = "route"
                  THEN [tracker EXCEPT !.activePlanId = planId]
                  ELSE tracker
    /\ UNCHANGED <<clock, exec, signal, calls, toolset, gen, text, validated>>

\* for (i < steps.length) { if (request.signal.aborted) return; ...
LoopAborted ==
    /\ orch.pc = "loop" /\ orch.i < orch.n /\ signal
    /\ orch' = [orch EXCEPT !.pc = "done"]
    /\ out' = <<>>
    /\ last' = [op |-> "loopAborted"]
    /\ UNCHANGED <<store, emittedPlanIds, clock, snapshotWrites, tracker, exec, signal, calls, toolset, gen, text, validated>>

\* the loop ran out of steps
LoopFinished ==
    /\ orch.pc = "loop" /\ orch.i = orch.n
    /\ orch' = [orch EXCEPT !.pc = "done"]
    /\ out' = <<>>
    /\ last' = [op |-> "loopFinished"]
    /\ UNCHANGED <<store, emittedPlanIds, clock, snapshotWrites, tracker, exec, signal, calls, toolset, gen, text, validated>>

\* RunStepBegin without the test of request.signal.aborted before it
RunStepBeginUnchecked ==
    /\ orch.pc = "loop" /\ orch.i < orch.n
    /\ exec.pc = "idle"
    /\ StatusWrite(orch.planId, orch.i, "in_progress", NoMessage)
    /\ exec' = [exec EXCEPT !.pc = "open", !.planId = orch.planId,
                            !.stepIndex = orch.i,
                            !.emitText = (orch.i = orch.n - 1),
                            !.ownAbort = FALSE,
                            !.finalStatus = "completed",
                            !.finalErrorMessage = NoMessage,
                            !.nread = 0, !.toolName = NoTool,
                            !.writes = <<"in_progress">>,
                            !.result = "none",
                            !.forbidden = NoTool, !.toolError = NoMessage]
    /\ orch' = logged([orch EXCEPT !.pc = "step"], out')
    /\ text' = beginText(text)
    /\ UNCHANGED <<emittedPlanIds, clock, snapshotWrites, tracker, signal, calls, toolset, gen, validated>>

\* runStep is entered: the abort controller is created and in_progress written
RunStepBegin ==
    /\ orch.pc = "loop" /\ orch.i < orch.n /\ ~signal
    /\ exec.pc = "idle"
    /\ StatusWrite(orch.planId, orch.i, "in_progress", NoMessage)
    /\ exec' = [exec EXCEPT !.pc = "open", !.planId = orch.planId,
                            !.stepIndex = orch.i,
                            !.emitText = (orch.i = orch.n - 1),
                            !.ownAbort = FALSE,
                            !.finalStatus = "completed",
                            !.finalErrorMessage = NoMessage,
                            !.nread = 0, !.toolName = NoTool,
                            !.writes = <<"in_progress">>,
                            !.result = "none",
                            !.forbidden = NoTool, !.toolError = NoMessage]
    /\ orch' = logged([orch EXCEPT !.pc = "step"], out')
    /\ text' = beginText(text)
    /\ UNCHANGED <<emittedPlanIds, clock, snapshotWrites, tracker, signal, calls, toolset, gen, validated>>

\* convertToModelMessages and streamText succeed; the reader is obtained
StreamOpens ==
    /\ exec.pc = "open"
    /\ exec' = [exec EXCEPT !.pc = "read"]
    /\ out' = <<>>
    /\ last' = [op |-> "streamOpens"]
    /\ UNCHANGED <<store, emittedPlanIds, clock, snapshotWrites, tracker, orch, signal, calls, toolset, gen, text, validated>>

\* convertToModelMessages or streamText throws
StreamOpenThrows ==
    /\ exec.pc = "open"
    /\ exec' = catchError(exec, "stream failed")
    /\ out' = <<>>
    /\ last' = [op |-> "streamOpenThrows"]
    /\ UNCHANGED <<store, emittedPlanIds, clock, snapshotWrites, tracker, orch, signal, calls, toolset, gen, text, validated>>

\* what the stream of this call has delivered so far: the first forbidden tool
\* it asked for and the text of the tool error it reported
observe(x, ev) ==
    [x EXCEPT !.forbidden = IF @ = NoTool /\ ev.type = "tool-input-available"
                               /\ ev.toolName \in forbiddenTools
                            THEN ev.toolName ELSE @,
              !.toolError = IF ev.type = "tool-output-error" THEN ev.errorText ELSE @]

\* reader.read() resolves with a value
ReadEvent(ev) ==
    /\ exec.pc = "read"
    /\ exec.nread < MaxEvents
    /\ exec' = observe(IF exec.impl = "route" THEN routeOnEvent(exec, ev)
                       ELSE executorOnEvent(exec, ev), ev)
    /\ LET t == textOnEvent(text, exec, ev)
       IN  IF exec'.pc = "final"
           THEN /\ text' = afterLoop(t, exec)
                /\ out' = eventWrites(recordToolInput(exec, ev, FALSE), ev)
                          \o textWrites(text, exec, ev) \o afterLoopWrites(t, exec)
           ELSE /\ text' = t
                /\ out' = eventWrites(recordToolInput(exec, ev, FALSE), ev)
                          \o textWrites(text, exec, ev)
    /\ last' = [op |-> "readEvent", type |-> ev.type]
    /\ UNCHANGED <<store, emittedPlanIds, clock, snapshotWrites, tracker, orch, signal, calls, toolset, gen, validated>>

\* reader.read() resolves with done
ReadDone ==
    /\ exec.pc = "read"
    /\ exec' = [exec EXCEPT !.pc = "final"]
    /\ text' = afterLoop(text, exec)
    /\ out' = afterLoopWrites(text, exec)
    /\ last' = [op |-> "readDone"]
    /\ UNCHANGED <<store, emittedPlanIds, clock, snapshotWrites, tracker, orch, signal, calls, toolset, gen, validated>>

\* reader.read() rejects
ReadThrows ==
    /\ exec.pc = "read"
    /\ exec' = catchError(exec, "stream failed")
    /\ out' = <<>>
    /\ last' = [op |-> "readThrows"]
    /\ UNCHANGED <<store, emittedPlanIds, clock, snapshotWrites, tracker, orch, signal, calls, toolset, gen, text, validated>>

\* Finalize that returns early on an abort, without the terminal write
FinalizeSkipsAborted ==
    /\ exec.pc = "final"
    /\ IF exec.finalStatus = "aborted"
       THEN /\ exec' = [exec EXCEPT !.pc = "returned", !.result = "aborted"]
            /\ out' = <<>>
            /\ last' = [op |-> "finalize"]
            /\ UNCHANGED store
       ELSE /\ StatusWrite(exec.planId, exec.stepIndex, terminalStatus(exec.finalStatus),
                           IF exec.finalStatus = "completed" THEN NoMessage
                           ELSE exec.finalErrorMessage)
            /\ exec' = [exec EXCEPT !.pc = "returned",
                                    !.writes = Append(@, terminalStatus(exec.finalStatus)),
                                    !.result = exec.finalStatus]
    /\ orch' = logged(orch, out')
    /\ UNCHANGED <<emittedPlanIds, clock, snapshotWrites, tracker, signal, calls, toolset, gen, text, validated>>

\* after the try/catch: the terminal write and the return value
Finalize ==
    /\ exec.pc = "final"
    /\ StatusWrite(exec.planId, exec.stepIndex, terminalStatus(exec.finalStatus),
                   IF exec.finalStatus = "completed" THEN NoMessage
                   ELSE exec.finalErrorMessage)
    /\ exec' = [exec EXCEPT !.pc = "returned",
                            !.writes = Append(@, terminalStatus(exec.finalStatus)),
                            !.result = exec.finalStatus]
    /\ orch' = logged(orch, out')
    /\ UNCHANGED <<emittedPlanIds, clock, snapshotWrites, tracker, signal, calls, toolset, gen, text, validated>>

\* StepReturns that runs the same step again
StepReturnsRepeats ==
    /\ orch.pc = "step" /\ exec.pc = "returned"
    /\ orch' = IF exec.result = "completed"
               THEN [orch EXCEPT !.pc = "loop"]
               ELSE [orch EXCEPT !.pc = "done"]
    /\ exec' = [exec EXCEPT !.pc = "idle"]
    /\ text' = returnText(text, exec)
    /\ out' = <<>>
    /\ last' = [op |-> "stepReturns"]
    /\ UNCHANGED <<store, emittedPlanIds, clock, snapshotWrites, tracker, signal, calls, toolset, gen, validated>>

\* StepReturns without the test of result.status
StepReturnsContinues ==
    /\ orch.pc = "step" /\ exec.pc = "returned"
    /\ orch' = [orch EXCEPT !.pc = "loop", !.i = @ + 1]
    /\ exec' = [exec EXCEPT !.pc = "idle"]
    /\ text' = returnText(text, exec)
    /\ out' = <<>>
    /\ last' = [op |-> "stepReturns"]
    /\ UNCHANGED <<store, emittedPlanIds, clock, snapshotWrites, tracker, signal, calls, toolset, gen, validated>>

\* StepReturns that advances the loop by two
StepReturnsSkips ==
    /\ orch.pc = "step" /\ exec.pc = "returned"
    /\ orch' = IF exec.result = "completed"
               THEN [orch EXCEPT !.pc = "loop", !.i = Min(@ + 2, orch.n)]
               ELSE [orch EXCEPT !.pc = "done"]
    /\ exec' = [exec EXCEPT !.pc = "idle"]
    /\ text' = returnText(text, exec)
    /\ out' = <<>>
    /\ last' = [op |-> "stepReturns"]
    /\ UNCHANGED <<store, emittedPlanIds, clock, snapshotWrites, tracker, signal, calls, toolset, gen, validated>>

\* the loop body after await runStep(...)
StepReturns ==
    /\ orch.pc = "step" /\ exec.pc = "returned"
    /\ orch' = IF exec.result = "completed"
               THEN [orch EXCEPT !.pc = "loop", !.i = @ + 1]
               ELSE [orch EXCEPT !.pc = "done"]
    /\ exec' = [exec EXCEPT !.pc = "idle"]
    /\ text' = returnText(text, exec)
    /\ out' = <<>>
    /\ last' = [op |-> "stepReturns"]
    /\ UNCHANGED <<store, emittedPlanIds, clock, snapshotWrites, tracker, signal, calls, toolset, gen, validated>>

Init ==
    /\ store = <<>>
    /\ emittedPlanIds = {}
    /\ clock = 1
    /\ out = <<>>
    /\ last = NoCall
    /\ snapshotWrites = [p \in PlanIds |-> 0]
    /\ tracker = IdleTracker
    /\ \E impl \in Impls, linked \in BOOLEAN :
        /\ impl = "route" => linked
        /\ exec = [IdleExec EXCEPT !.impl = impl, !.linked = linked]
    /\ orch = IdleOrch
    /\ signal = FALSE
    /\ calls = 0
    /\ toolset = IdleToolset
    /\ gen = IdleGen
    /\ text = IdleText
    /\ validated = IdleValidated

\* an outline of n steps was generated and parsed
OutlineStep ==
    /\ \E planId \in SnapshotIds, n \in 0..MaxOutlineSteps : AcceptOutline(planId, n)
    /\ UNCHANGED gen

PlanStep == \E planId \in SnapshotIds, n \in 0..MaxOutlineSteps : AcceptPlan(planId, n)

ReadStep == \E ev \in StreamEvents : ReadEvent(ev)

RunNext ==
    \/ OutlineStep
    \/ PlanStep
    \/ LoopAborted
    \/ LoopFinished
    \/ RunStepBegin
    \/ StreamOpens
    \/ StreamOpenThrows
    \/ ReadStep
    \/ ReadDone
    \/ ReadThrows
    \/ Finalize
    \/ StepReturns

\* the step loop and the runStep call in flight
LoopNext ==
    \/ LoopAborted
    \/ LoopFinished
    \/ RunStepBegin
    \/ StreamOpens
    \/ StreamOpenThrows
    \/ ReadStep
    \/ ReadDone
    \/ ReadThrows
    \/ Finalize
    \/ StepReturns

Next == Tick \/ Abort \/ RunNext

Spec == Init /\ [][Next]_vars

\* an outline whose steps produce text
TextOutline ==
    /\ \E n \in 1..MaxTextSteps : AcceptOutline("plan-a", n)
    /\ UNCHANGED gen

RECURSIVE totalLength(_)
totalLength(outs) ==
    IF outs = <<>> THEN 0 ELSE Len(Head(outs)) + totalLength(Tail(outs))

\* the characters the run has kept so far
textLength == Len(text.received) + totalLength(text.outputs)

TextReadStep ==
    \E ev \in TextStreamEvents :
        /\ exec.nread < MaxTextEvents
        /\ getTextDelta(exec.impl, ev) # NoText => textLength < MaxTextLength
        /\ ReadEvent(ev)

\* chunks of a stream whose text fills the buffer: ten characters at once, one
\* character, a newline
BufferStreamEvents ==
    [type : {"text-delta"}, toolName : {NoTool}, errorText : {NoMessage},
     textDelta : {[k \in 1..10 |-> "a"], <<"b">>, <<"\n">>}, text : {NoText}]

\* an outline of two steps, the first of which does not emit text
BufferOutline ==
    /\ AcceptOutline("plan-a", 2)
    /\ UNCHANGED gen

\* the stream of the first step delivers text; the stream of the last is empty
BufferReadStep ==
    \E ev \in BufferStreamEvents :
        /\ exec.nread < MaxBufferEvents
        /\ ~exec.emitText
        /\ ReadEvent(ev)

BufferNext ==
    \/ BufferOutline
    \/ Abort
    \/ LoopAborted
    \/ LoopFinished
    \/ RunStepBegin
    \/ StreamOpens
    \/ StreamOpenThrows
    \/ BufferReadStep
    \/ ReadDone
    \/ ReadThrows
    \/ Finalize
    \/ StepReturns

SpecBuffer == Init /\ [][BufferNext]_vars

TextNext ==
    \/ TextOutline
    \/ Abort
    \/ LoopAborted
    \/ LoopFinished
    \/ RunStepBegin
    \/ StreamOpens
    \/ StreamOpenThrows
    \/ TextReadStep
    \/ ReadDone
    \/ ReadThrows
    \/ Finalize
    \/ StepReturns

SpecText == Init /\ [][TextNext]_vars

\* the event loop runs every continuation that is ready, and a stream delivers
\* at most MaxEvents values before it ends or fails
LiveNext == Abort \/ RunNext

\* Timestamps play no part in the control flow of runStep or of the loop, so
\* the run is followed under one reading of the clock.
LiveSpec == Init /\ [][LiveNext]_vars /\ WF_vars(RunNext)

----------------------------------------------------------------------------
(* validateOutline: the quality rules of an outline *)

\* OUTLINE_VALIDATION_RULES
minSteps == 2
maxSteps == 15
minTitleLength == 2
maxTitleLength == 50

\* A title is modelled by its length, Undefined when it is missing; a step is
\* [titleLength, hasDependsOn, dependsOn].
TitleLengths == {Undefined, 0, minTitleLength - 1, minTitleLength}
StepTitleLengths ==
    {Undefined, 0, minTitleLength - 1, minTitleLength, maxTitleLength, maxTitleLength + 1}
DependencyIndices == -1..(MaxIndex + 1)
DependsOnLists ==
    {<<>>} \cup {<<d>> : d \in DependencyIndices}
    \cup {<<d, e>> : d \in DependencyIndices, e \in DependencyIndices}
PlainStep == [titleLength |-> minTitleLength + 3, hasDependsOn |-> FALSE, dependsOn |-> <<>>]

\* the outlines validateOutline is called with: n steps, all plain but one
OutlineInputs ==
    {[titleLength |-> t, hasSteps |-> FALSE, steps |-> <<>>] : t \in TitleLengths}
    \cup {[titleLength |-> t, hasSteps |-> TRUE, steps |-> <<>>] : t \in TitleLengths}
    \cup {[titleLength |-> t, hasSteps |-> TRUE,
           steps |-> [j \in 1..n |-> IF j = k
                                     THEN [titleLength |-> st, hasDependsOn |-> hd,
                                           dependsOn |-> IF hd THEN d ELSE <<>>]
                                     ELSE PlainStep]] :
            t \in TitleLengths, n \in 1..MaxValidatedSteps, k \in 1..(MaxIndex + 1),
            st \in StepTitleLengths, hd \in BOOLEAN, d \in DependsOnLists}

\* !title || title.length < minTitleLength
titleTooShort(titleLength) == titleLength = Undefined \/ titleLength < minTitleLength

\* the errors pushed for the entries of step.dependsOn from position m on
RECURSIVE dependencyErrors(_, _, _, _)
\* dependencyErrors that lets a step depend on itself
dependencyErrorsSelf(dependsOn, m, index, length) ==
    IF m > Len(dependsOn) THEN <<>>
    ELSE LET dep == dependsOn[m]
         IN  (IF dep > index THEN <<[kind |-> "not earlier", step |-> index]>> ELSE <<>>)
             \o (IF dep < 0 \/ dep >= length
                 THEN <<[kind |-> "invalid index", step |-> index]>> ELSE <<>>)
             \o dependencyErrors(dependsOn, m + 1, index, length)

dependencyErrors(dependsOn, m, index, length) ==
    IF m > Len(dependsOn) THEN <<>>
    ELSE LET dep == dependsOn[m]
         IN  (IF dep >= index THEN <<[kind |-> "not earlier", step |-> index]>> ELSE <<>>)
             \o (IF dep < 0 \/ dep >= length
                 THEN <<[kind |-> "invalid index", step |-> index]>> ELSE <<>>)
             \o dependencyErrors(dependsOn, m + 1, index, length)

\* the errors pushed by the forEach callback for the step at index
stepErrors(step, index, length) ==
    (IF titleTooShort(step.titleLength)
     THEN <<[kind |-> "step title short", step |-> index]>> ELSE <<>>)
    \o (IF step.titleLength # Undefined /\ step.titleLength # 0
           /\ step.titleLength > maxTitleLength
        THEN <<[kind |-> "step title long", step |-> index]>> ELSE <<>>)
    \o (IF step.hasDependsOn
        THEN dependencyErrors(step.dependsOn, 1, index, length) ELSE <<>>)

RECURSIVE allStepErrors(_, _)
allStepErrors(steps, k) ==
    IF k > Len(steps) THEN <<>>
    ELSE stepErrors(steps[k], k - 1, Len(steps)) \o allStepErrors(steps, k + 1)

validateOutline(outline) ==
    LET errors ==
            (IF titleTooShort(outline.titleLength)
             THEN <<[kind |-> "title", step |-> Undefined]>> ELSE <<>>)
            \o (IF ~outline.hasSteps \/ Len(outline.steps) < minSteps
                THEN <<[kind |-> "min steps", step |-> Undefined]>> ELSE <<>>)
            \o (IF outline.hasSteps /\ Len(outline.steps) > maxSteps
                THEN <<[kind |-> "max steps", step |-> Undefined]>> ELSE <<>>)
            \o (IF outline.hasSteps THEN allStepErrors(outline.steps, 1) ELSE <<>>)
    IN  [valid |-> Len(errors) = 0, errors |-> errors]

ValidateInit ==
    /\ store = <<>>
    /\ emittedPlanIds = {}
    /\ clock = 1
    /\ out = <<>>
    /\ last = NoCall
    /\ snapshotWrites = [p \in PlanIds |-> 0]
    /\ tracker = IdleTracker
    /\ exec = IdleExec
    /\ orch = IdleOrch
    /\ signal = FALSE
    /\ calls = 0
    /\ toolset = IdleToolset
    /\ gen = IdleGen
    /\ text = IdleText
    /\ \E outline \in OutlineInputs :
            validated = [IdleValidated EXCEPT !.pc = "called", !.outline = outline]

ValidateCall ==
    /\ validated.pc = "called"
    /\ validated' = [validated EXCEPT !.pc = "returned",
                                      !.result = validateOutline(validated.outline)]
    /\ UNCHANGED <<store, emittedPlanIds, clock, out, last, snapshotWrites, tracker, exec,
                   orch, signal, calls, toolset, gen, text>>

ValidateNext == ValidateCall

SpecValidate == ValidateInit /\ [][ValidateNext]_vars

----------------------------------------------------------------------------
(* Outline generation: the model call that is offered the outline tool only, *)
(* in the request handler and in OutlineRunner.generateAndSnapshot           *)

\* value.input of a tool-input-available chunk: the title (by length,
\* Undefined when it is not a string) and the number of steps (Undefined when
\* the steps are missing)
OutlineToolInputs ==
    [titleLength : {Undefined, minTitleLength - 1, minTitleLength},
     steps : {Undefined} \cup 0..MaxOutlineSteps]

NoInput == [titleLength |-> Undefined, steps |-> Undefined]

OutlineEvents ==
    [type : {"tool-input-available"}, toolName : {"outline"}, toolCallId : SnapshotIds,
     input : OutlineToolInputs]
    \cup [type : {"tool-input-available"}, toolName : {"search"}, toolCallId : SnapshotIds,
          input : {NoInput}]
    \cup [type : {"text-delta", "finish"}, toolName : {NoTool}, toolCallId : {NoPlan},
          input : {NoInput}]

\* OutlineToolOutputSchema.safeParse(input): title is a string, steps defaults to []
safeParse(input) ==
    [success |-> input.titleLength # Undefined,
     data |-> [titleLength |-> input.titleLength,
               steps |-> IF input.steps = Undefined THEN 0 ELSE input.steps]]

\* outlineAbort.signal.aborted
outlineAbortFired(g) == g.ownAbort \/ (exec.linked /\ signal)

\* the outline as validateOutline reads it
outlineOf(g) ==
    [titleLength |-> g.titleLength, hasSteps |-> TRUE,
     steps |-> [j \in 1..g.steps |-> PlainStep]]

\* one pass of the read loop that takes any outline tool input, parsed or not
outlineOnEventUnparsed(g, ev) ==
    IF ev.type # "tool-input-available" \/ ev.toolName # "outline"
    THEN [g EXCEPT !.nread = @ + 1]
    ELSE [g EXCEPT !.nread = @ + 1, !.pc = "parsed", !.ownAbort = TRUE,
                   !.outlineId = ev.toolCallId,
                   !.titleLength = safeParse(ev.input).data.titleLength,
                   !.steps = safeParse(ev.input).data.steps]

\* one pass of the read loop of the outline generation
outlineOnEvent(g, ev) ==
    IF ev.type # "tool-input-available" \/ ev.toolName # "outline"
       \/ ~safeParse(ev.input).success
    THEN [g EXCEPT !.nread = @ + 1]
    ELSE [g EXCEPT !.nread = @ + 1, !.pc = "parsed", !.ownAbort = TRUE,
                   !.outlineId = ev.toolCallId,
                   !.titleLength = safeParse(ev.input).data.titleLength,
                   !.steps = safeParse(ev.input).data.steps]

\* streamText for the outline is called and the reader obtained
GenOpen ==
    /\ gen.pc = "idle" /\ orch.pc = "idle"
    /\ gen' = [gen EXCEPT !.pc = "read"]
    /\ out' = <<>>
    /\ last' = [op |-> "outlineOpens"]
    /\ UNCHANGED <<store, emittedPlanIds, clock, snapshotWrites, tracker, exec, orch, signal,
                   calls, toolset, text, validated>>

\* outlineReader.read() resolves with a value
GenRead(ev) ==
    /\ gen.pc = "read"
    /\ gen.nread < MaxEvents
    /\ gen' = outlineOnEvent(gen, ev)
    /\ out' = <<>>
    /\ last' = [op |-> "outlineRead", type |-> ev.type, toolName |-> ev.toolName,
                parsed |-> safeParse(ev.input).success]
    /\ UNCHANGED <<store, emittedPlanIds, clock, snapshotWrites, tracker, exec, orch, signal,
                   calls, toolset, text, validated>>

\* outlineReader.read() resolves with done: nothing was accepted
GenDone ==
    /\ gen.pc = "read"
    /\ gen' = [gen EXCEPT !.pc = "declined"]
    /\ out' = <<>>
    /\ last' = [op |-> "outlineDone"]
    /\ UNCHANGED <<store, emittedPlanIds, clock, snapshotWrites, tracker, exec, orch, signal,
                   calls, toolset, text, validated>>

\* streamText or outlineReader.read() throws: the request handler has no catch
\* around the call, OutlineRunner logs and returns undefined
GenThrows ==
    /\ gen.pc \in {"idle", "read"} /\ orch.pc = "idle"
    /\ IF exec.impl = "route"
       THEN /\ gen' = [gen EXCEPT !.pc = "threw"]
            /\ orch' = [orch EXCEPT !.pc = "done"]
       ELSE /\ gen' = [gen EXCEPT !.pc = "declined"]
            /\ orch' = orch
    /\ out' = <<>>
    /\ last' = [op |-> "outlineThrows"]
    /\ UNCHANGED <<store, emittedPlanIds, clock, snapshotWrites, tracker, exec, signal,
                   calls, toolset, text, validated>>

\* GenAccept that turns down an outline validateOutline reports invalid
GenAcceptValid ==
    /\ gen.pc = "parsed"
    /\ IF validateOutline(outlineOf(gen)).valid
       THEN /\ AcceptOutline(gen.outlineId, gen.steps)
            /\ gen' = [gen EXCEPT !.pc = "accepted", !.valid = TRUE]
       ELSE /\ gen' = [gen EXCEPT !.pc = "declined", !.valid = FALSE]
            /\ out' = <<>>
            /\ last' = [op |-> "outlineRejected"]
            /\ UNCHANGED <<store, emittedPlanIds, clock, snapshotWrites, tracker, exec, orch,
                           signal, calls, toolset, text, validated>>

\* if (outlineId && outlineData): validateOutline, whose result is only logged,
\* then the snapshot; the step loop follows
GenAccept ==
    /\ gen.pc = "parsed"
    /\ AcceptOutline(gen.outlineId, gen.steps)
    /\ gen' = [gen EXCEPT !.pc = "accepted",
                          !.valid = validateOutline(outlineOf(gen)).valid]

\* the request handler leaves the outline branch without an outline: the
\* ordinary call with tools: vercelAITooles
GenFallback ==
    /\ gen.pc = "declined"
    /\ exec.impl = "route"
    /\ gen' = [gen EXCEPT !.pc = "unscoped"]
    /\ out' = <<>>
    /\ last' = [op |-> "unscopedCall"]
    /\ UNCHANGED <<store, emittedPlanIds, clock, snapshotWrites, tracker, exec, orch, signal,
                   calls, toolset, text, validated>>

GenReadStep == \E ev \in OutlineEvents : GenRead(ev)

OutlineNext ==
    \/ GenOpen
    \/ GenReadStep
    \/ GenDone
    \/ GenThrows
    \/ GenAccept
    \/ GenFallback
    \/ Abort
    \/ LoopNext

SpecOutline == Init /\ [][OutlineNext]_vars

----------------------------------------------------------------------------
(* PlanProgressTracker: explicit progress updates of the unscoped model call *)

ProgressActions ==
    {NoActions,
     <<>>,
     <<[label |-> "note", value |-> "first"]>>,
     <<[label |-> "note", value |-> "first"], [label |-> "Error", value |-> "boom"]>>,
     <<[label |-> "note", value |-> "first"], [label |-> "Error", value |-> NoMessage]>>}

ProgressInputs ==
    [stepIndex : {Undefined} \cup 0..MaxIndex,
     status : {NoStatus} \cup Statuses,
     actions : ProgressActions,
     currentStepIndex : {Undefined} \cup 0..MaxIndex]

\* String.prototype.toLowerCase on the labels in use
toLowerCase(label) == IF label = "Error" THEN "error" ELSE label

\* readError that compares the labels as they are written
readErrorCaseSensitive(actions) ==
    IF actions = NoActions \/ Len(actions) = 0 THEN NoMessage
    ELSE LET hits == {k \in 1..Len(actions) : actions[k].label = "error"}
             first == CHOOSE k \in hits : \A j \in hits : k <= j
         IN  IF hits # {} /\ actions[first].value # NoMessage
             THEN actions[first].value
             ELSE actions[1].value

\* readError(actions): the value of the action labelled error, else of the first action
readError(actions) ==
    IF actions = NoActions \/ Len(actions) = 0 THEN NoMessage
    ELSE LET hits == {k \in 1..Len(actions) : toLowerCase(actions[k].label) = "error"}
             first == CHOOSE k \in hits : \A j \in hits : k <= j
         IN  IF hits # {} /\ actions[first].value # NoMessage
             THEN actions[first].value
             ELSE actions[1].value

\* setActivePlanId(planId)
setActivePlanId(t, planId) ==
    IF t.activePlanId # NoPlan /\ t.activePlanId # planId
    THEN [t EXCEPT !.isExplicitMode = FALSE, !.activeStepIndex = Undefined,
                   !.activePlanId = planId, !.toolNames = {}]
    ELSE [t EXCEPT !.activePlanId = planId]

\* every step completed or failed
allStepsComplete(steps) ==
    \A k \in 1..Len(steps) : steps[k].status \in {"completed", "failed"}

\* applyProgress: the record it leaves in the store (stepIndex given)
applyProgress(current, input, now) ==
    LET stepIndex == input.stepIndex
        grown == growSteps(current.steps, stepIndex)
        step == grown[stepIndex + 1]
        updated ==
            IF input.status = "in_progress"
            THEN [step EXCEPT !.status = "in_progress",
                              !.startTime = IF Truthy(@) THEN @ ELSE now,
                              !.toolCalls = IF @ = NoCalls THEN <<>> ELSE @]
            ELSE IF input.status = "completed"
            THEN [step EXCEPT !.status = "completed", !.endTime = now]
            ELSE IF input.status = "failed"
            THEN [step EXCEPT !.status = "failed", !.endTime = now,
                              !.errorMessage = readError(input.actions)]
            ELSE step
        steps == [grown EXCEPT ![stepIndex + 1] = updated]
        index == IF input.currentStepIndex # Undefined THEN input.currentStepIndex
                 ELSE IF input.status = "completed" /\ stepIndex = Len(steps) - 1
                 THEN Undefined
                 ELSE current.currentStepIndex
    IN  [current EXCEPT !.steps = steps,
                        !.currentStepIndex =
                            IF allStepsComplete(steps) THEN Undefined ELSE index]

\* activeStepIndex after applyProgress
applyActiveStep(t, input, record) ==
    IF allStepsComplete(record.steps) THEN Undefined
    ELSE IF input.status = "in_progress" THEN input.stepIndex
    ELSE IF input.status \in {"completed", "failed"} /\ t.activeStepIndex = input.stepIndex
    THEN Undefined
    ELSE t.activeStepIndex

\* selectStep(current)
selectStep(t, current) ==
    IF t.activeStepIndex # Undefined THEN t.activeStepIndex
    ELSE LET running == {k \in 0..(Len(current.steps) - 1) :
                            current.steps[k + 1].status = "in_progress"}
         IN  IF running # {}
             THEN CHOOSE k \in running : \A j \in running : k <= j
             ELSE current.currentStepIndex

\* recordTool that also completes the step it records the tool on
recordToolCompletes(t, current, toolName) ==
    LET idx == selectStep(t, current)
    IN  IF idx = Undefined \/ idx >= Len(current.steps) THEN current
        ELSE IF current.steps[idx + 1].status # "in_progress" THEN current
        ELSE [current EXCEPT !.steps[idx + 1].toolCalls =
                                Append(IF @ = NoCalls THEN <<>> ELSE @, toolName),
                             !.steps[idx + 1].status = "completed"]

\* recordTool(toolName): the record it leaves in the store
recordTool(t, current, toolName) ==
    LET idx == selectStep(t, current)
    IN  IF idx = Undefined \/ idx >= Len(current.steps) THEN current
        ELSE IF current.steps[idx + 1].status # "in_progress" THEN current
        ELSE [current EXCEPT !.steps[idx + 1].toolCalls =
                Append(IF @ = NoCalls THEN <<>> ELSE @, toolName)]

\* some step of a record carries more tool names than the model keeps
TooManyCalls(record) ==
    \E k \in 1..Len(record.steps) :
        /\ record.steps[k].toolCalls # NoCalls
        /\ Len(record.steps[k].toolCalls) > MaxToolCalls

\* trackInput(toolCallId, "progress", input)
TrackProgress(input) ==
    /\ orch.activePlanId # NoPlan
    /\ ~tracker.isStopped
    /\ calls < MaxTrackerCalls
    /\ calls' = calls + 1
    /\ last' = [op |-> "trackProgress", planId |-> tracker.activePlanId,
                stepIndex |-> input.stepIndex,
                status |-> input.status,
                actions |-> input.actions,
                applied |-> tracker.activePlanId # NoPlan /\ Known(tracker.activePlanId)
                            /\ input.stepIndex # Undefined,
                preLen |-> IF Known(tracker.activePlanId)
                           THEN Len(store[tracker.activePlanId].steps) ELSE 0]
    /\ IF tracker.activePlanId # NoPlan /\ Known(tracker.activePlanId)
          /\ input.stepIndex # Undefined
       THEN LET next == applyProgress(store[tracker.activePlanId], input, clock)
            IN  /\ store' = Put(tracker.activePlanId, next)
                /\ tracker' = [tracker EXCEPT
                                 !.toolNames = @ \cup {"progress"},
                                 !.isExplicitMode = TRUE,
                                 !.activeStepIndex = applyActiveStep(tracker, input, next)]
                /\ out' = <<ProgressEvent(tracker.activePlanId, next)>>
       ELSE /\ tracker' = [tracker EXCEPT !.toolNames = @ \cup {"progress"},
                                          !.isExplicitMode = TRUE]
            /\ out' = <<>>
            /\ UNCHANGED store
    /\ UNCHANGED <<emittedPlanIds, clock, snapshotWrites, exec, orch, signal, toolset, gen, text, validated>>

\* trackInput(toolCallId, toolName, input) for a tool other than progress
TrackTool(toolName) ==
    /\ orch.activePlanId # NoPlan
    /\ ~tracker.isStopped
    /\ calls < MaxTrackerCalls
    /\ calls' = calls + 1
    /\ last' = [op |-> "trackTool", toolName |-> toolName]
    /\ out' = <<>>
    /\ IF tracker.activePlanId # NoPlan /\ Known(tracker.activePlanId)
       THEN /\ ~TooManyCalls(recordTool(tracker, store[tracker.activePlanId], toolName))
            /\ store' = Put(tracker.activePlanId,
                            recordTool(tracker, store[tracker.activePlanId], toolName))
       ELSE UNCHANGED store
    /\ tracker' = [tracker EXCEPT !.toolNames = @ \cup {toolName}]
    /\ UNCHANGED <<emittedPlanIds, clock, snapshotWrites, exec, orch, signal, toolset, gen, text, validated>>

\* the output of a non-meta tool of the active plan is written as the output of
\* the step selectStep picks
recordStepOutput(t, toolName) ==
    IF toolName \in {"progress", "outline", "plan"} THEN <<>>
    ELSE IF t.activePlanId = NoPlan \/ ~Known(t.activePlanId) THEN <<>>
    ELSE LET idx == selectStep(t, store[t.activePlanId])
         IN  IF idx = Undefined THEN <<>>
             ELSE <<[type |-> "data-plan-step-output", id |-> t.activePlanId,
                     data |-> [stepIndex |-> idx, toolName |-> toolName]]>>

\* trackOutput(toolCallId, output, isError) for a tool call whose input was tracked
TrackOutput(toolName) ==
    /\ orch.activePlanId # NoPlan
    /\ ~tracker.isStopped
    /\ toolName \in tracker.toolNames
    /\ last' = [op |-> "trackOutput", toolName |-> toolName]
    /\ out' = recordStepOutput(tracker, toolName)
    /\ UNCHANGED <<store, emittedPlanIds, clock, snapshotWrites, tracker, exec, orch, signal,
                   calls, toolset, gen, text, validated>>

\* the tapped stream delivers the input of a plan tool call: writePlanSnapshot,
\* setActivePlanId, then trackInput for the plan tool itself
InlinePlan(planId, n) ==
    /\ ~tracker.isStopped
    /\ calls < MaxTrackerCalls
    /\ calls' = calls + 1
    /\ emittedPlanIds' = emittedPlanIds \cup {planId}
    /\ snapshotWrites' = IF planId \in emittedPlanIds THEN snapshotWrites
                         ELSE [snapshotWrites EXCEPT ![planId] = Min(@ + 1, 2)]
    /\ orch' = [orch EXCEPT !.activePlanId = planId]
    /\ tracker' = [setActivePlanId(tracker, planId) EXCEPT !.toolNames = @ \cup {"plan"}]
    /\ last' = [op |-> "inlinePlan", planId |-> planId,
                seen |-> planId \in emittedPlanIds]
    /\ out' = IF planId \in emittedPlanIds THEN <<>>
              ELSE <<PlanEvent("data-plan", planId, n),
                     ProgressEvent(planId, newSnapshot(planId, n))>>
    /\ LET written == IF planId \in emittedPlanIds THEN store[planId]
                      ELSE newSnapshot(planId, n)
           recorded == recordTool(setActivePlanId(tracker, planId), written, "plan")
       IN  /\ ~TooManyCalls(recorded)
           /\ store' = Put(planId, recorded)
    /\ UNCHANGED <<clock, exec, signal, toolset, gen, text, validated>>

\* request.signal fires during the unscoped call
TrackerStop ==
    /\ ~signal
    /\ signal' = TRUE
    /\ tracker' = [tracker EXCEPT !.isStopped = TRUE]
    /\ out' = <<>>
    /\ last' = [op |-> "abort"]
    /\ UNCHANGED <<store, emittedPlanIds, clock, snapshotWrites, exec, orch, calls, toolset, gen, text, validated>>

TrackerPlanStep == \E planId \in SnapshotIds, n \in 0..MaxPlanSteps : InlinePlan(planId, n)

TrackerProgressStep ==
    \E input \in ProgressInputs :
        /\ input.status # "failed" => input.actions = NoActions
        /\ TrackProgress(input)

TrackerToolStep == TrackTool("search")

TrackerOutputStep == \E toolName \in ToolNames : TrackOutput(toolName)

\* the chunks of one tapped stream are handled under one reading of the clock
TrackerNext ==
    \/ TrackerPlanStep
    \/ TrackerProgressStep
    \/ TrackerToolStep
    \/ TrackerOutputStep
    \/ TrackerStop

SpecTracker == WriterInit /\ [][TrackerNext]_vars

----------------------------------------------------------------------------
(* The store under either of its two mutators: the authoritative writer, or *)
(* the tracker of the unscoped call.                                        *)

ProgressInit ==
    /\ store = <<>>
    /\ emittedPlanIds = {}
    /\ clock = 1
    /\ out = <<>>
    /\ last = NoCall
    /\ snapshotWrites = [p \in PlanIds |-> 0]
    /\ tracker = IdleTracker
    /\ exec = IdleExec
    /\ \E mode \in {"writer", "tapped"} : orch = [IdleOrch EXCEPT !.pc = mode]
    /\ signal = FALSE
    /\ calls = 0
    /\ toolset = IdleToolset
    /\ gen = IdleGen
    /\ text = IdleText
    /\ validated = IdleValidated

ProgressNext ==
    \/ orch.pc = "writer" /\ WriterNext
    \/ orch.pc = "tapped" /\ TrackerNext

SpecProgress == ProgressInit /\ [][ProgressNext]_vars

----------------------------------------------------------------------------
(* The tool set of a request and the tools handed to each model call *)

CapabilityNames == ToolNames \cup {"image", "workflow", "mcp"}

\* const { [A]: _a, [DefaultToolName.Progress]: _p, ...executionTools } = vercelAITooles
executionTools(caps, first) == caps \ {first, "progress"}

ToolsInit ==
    /\ store = <<>>
    /\ emittedPlanIds = {}
    /\ clock = 1
    /\ out = <<>>
    /\ last = NoCall
    /\ snapshotWrites = [p \in PlanIds |-> 0]
    /\ tracker = IdleTracker
    /\ exec = IdleExec
    /\ orch = IdleOrch
    /\ signal = FALSE
    /\ calls = 0
    /\ \E caps \in SUBSET CapabilityNames : toolset = [IdleToolset EXCEPT !.caps = caps]
    /\ gen = IdleGen
    /\ text = IdleText
    /\ validated = IdleValidated

\* if (isPlanMode && vercelAITooles[DefaultToolName.Outline]): the steps of the
\* outline run with executionTools
OutlinePath ==
    /\ toolset.path = "none"
    /\ "outline" \in toolset.caps
    /\ toolset' = [toolset EXCEPT !.path = "outline",
                                  !.tools = executionTools(toolset.caps, "outline")]
    /\ UNCHANGED <<store, emittedPlanIds, clock, out, last, snapshotWrites, tracker, exec,
                   orch, signal, calls, gen, text, validated>>

\* else if (isPlanMode && vercelAITooles[DefaultToolName.Plan]): the steps of
\* the plan run with executionTools
PlanPath ==
    /\ toolset.path = "none"
    /\ "outline" \notin toolset.caps
    /\ "plan" \in toolset.caps
    /\ toolset' = [toolset EXCEPT !.path = "plan",
                                  !.tools = executionTools(toolset.caps, "plan")]
    /\ UNCHANGED <<store, emittedPlanIds, clock, out, last, snapshotWrites, tracker, exec,
                   orch, signal, calls, gen, text, validated>>

\* otherwise, and when the intent is not a plan: one call with tools: vercelAITooles
UnscopedPath ==
    /\ toolset.path = "none"
    /\ toolset' = [toolset EXCEPT !.path = "unscoped", !.tools = toolset.caps]
    /\ UNCHANGED <<store, emittedPlanIds, clock, out, last, snapshotWrites, tracker, exec,
                   orch, signal, calls, gen, text, validated>>

ToolsNext == OutlinePath \/ PlanPath \/ UnscopedPath

SpecTools == ToolsInit /\ [][ToolsNext]_vars

----------------------------------------------------------------------------
(* Properties *)

Terminal == {"completed", "failed"}

statusAt(planId, k) ==
    IF Known(planId) /\ k < Len(store[planId].steps)
    THEN store[planId].steps[k + 1].status
    ELSE "pending"

Running(record) == {k \in 1..Len(record.steps) : record.steps[k].status = "in_progress"}

\* C1: a runStep call writes in_progress first and then exactly one terminal
\* status (completed or failed) before it returns, however its stream ends.
C1_ExactlyOneTerminalWrite ==
    /\ exec.pc = "idle" =>
        exec.writes \in {<<>>, <<"in_progress", "completed">>, <<"in_progress", "failed">>}
    /\ exec.pc \in {"open", "read", "final"} => exec.writes = <<"in_progress">>
    /\ exec.pc = "returned" =>
        exec.writes \in {<<"in_progress", "completed">>, <<"in_progress", "failed">>}

\* a runStep call has returned after its stream threw
C1_Witness ==
    /\ exec.pc = "returned"
    /\ exec.finalErrorMessage = "stream failed"
    /\ exec.writes = <<"in_progress", "failed">>

\* C2: every step written in_progress is eventually written completed or failed.
C2_StartedStepsEnd ==
    \A planId \in SnapshotIds, k \in 0..MaxPlanSteps :
        (statusAt(planId, k) = "in_progress") ~> (statusAt(planId, k) \in Terminal)

\* a cancelled step has reached its terminal status
C2_Witness ==
    /\ exec.pc = "returned"
    /\ exec.result = "aborted"
    /\ statusAt(exec.planId, exec.stepIndex) = "failed"

\* C3: no record ever holds two steps in_progress.
C3_SingleInProgress ==
    \A planId \in DOMAIN store : Cardinality(Running(store[planId])) <= 1

\* a step was started while another one was still in_progress
C3_Witness ==
    /\ last.op = "writeStepStatus" /\ last.known
    /\ last.status = "in_progress"
    /\ last.stale # {}
    /\ Running(store[last.planId]) = {last.stepIndex + 1}

Extends(call) ==
    /\ \/ call.op = "writeStepStatus" /\ call.known
       \/ call.op = "trackProgress" /\ call.applied
    /\ call.stepIndex >= call.preLen

\* C6 as stated: a write at an index at or beyond the length extends the array
\* to stepIndex + 1, the new entries other than the target are pending, and the
\* existing entries keep their status.
C6_Original ==
    [][Extends(last') =>
        LET old == store[last'.planId].steps
            new == store'[last'.planId].steps
        IN  /\ Len(new) = last'.stepIndex + 1
            /\ \A k \in (Len(old) + 1)..last'.stepIndex : new[k].status = "pending"
            /\ \A k \in 1..Len(old) : new[k].status = old[k].status]_vars

\* C6 amended: as above, except that a writeStepStatus(in_progress) leaves an
\* existing entry that was in_progress pending; every other existing entry keeps
\* its status.
C6_ArrayGrowth ==
    [][Extends(last') =>
        LET old == store[last'.planId].steps
            new == store'[last'.planId].steps
        IN  /\ Len(new) = last'.stepIndex + 1
            /\ \A k \in (Len(old) + 1)..last'.stepIndex : new[k].status = "pending"
            /\ \A k \in 1..Len(old) :
                IF last'.op = "writeStepStatus" /\ last'.status = "in_progress"
                   /\ old[k].status = "in_progress"
                THEN new[k].status = "pending"
                ELSE new[k].status = old[k].status]_vars

\* a write two past the end of a record whose existing entry had been finished
C6_Witness ==
    /\ last.op = "writeStepStatus" /\ last.known
    /\ last.preLen >= 1
    /\ last.stepIndex > last.preLen
    /\ LET steps == store[last.planId].steps
       IN  /\ Len(steps) = last.stepIndex + 1
           /\ steps[1].status \in Terminal
           /\ steps[last.stepIndex].status = "pending"
           /\ steps[last.stepIndex + 1].status # "pending"

\* C7: a snapshot call for a plan id already seen emits nothing and leaves the
\* store unchanged, whatever was written in between and whatever plan data it
\* carries; the plan snapshot event is emitted once per plan id.
C7_SnapshotOnce ==
    /\ [][(last'.op = "writeSnapshot" /\ last'.planId \in emittedPlanIds) =>
            /\ out' = <<>>
            /\ store' = store
            /\ emittedPlanIds' = emittedPlanIds]_vars
    /\ [](\A planId \in PlanIds : snapshotWrites[planId] <= 1)

\* a second snapshot call arrived after a status write had changed the record
C7_Witness ==
    /\ last.op = "writeSnapshot" /\ last.seen
    /\ out = <<>>
    /\ snapshotWrites[last.planId] = 1
    /\ \E k \in 1..Len(store[last.planId].steps) :
        store[last.planId].steps[k].status # "pending"

\* C8: writeStepStatus for a plan id without a record changes nothing in the
\* store and emits no progress event.
C8_UnknownPlan ==
    [][(last'.op = "writeStepStatus" /\ last'.planId \notin DOMAIN store) =>
            /\ store' = store
            /\ out' = <<>>]_vars

\* a write for an unknown plan arrived while another plan had a record
C8_Witness ==
    /\ last.op = "writeStepStatus" /\ ~last.known
    /\ last.planId \notin DOMAIN store
    /\ out = <<>>
    /\ \E planId \in DOMAIN store : \E k \in 1..Len(store[planId].steps) :
        store[planId].steps[k].status # "pending"

\* C9: after writeStepStatus on step i of a known plan, currentStepIndex is i for
\* in_progress, i + 1 for completed when i + 1 is below the number of steps and
\* undefined otherwise, and undefined for failed.
C9_CurrentStepIndex ==
    (last.op = "writeStepStatus" /\ last.known) =>
        LET record == store[last.planId]
            i == last.stepIndex
        IN  record.currentStepIndex =
                CASE last.status = "in_progress" -> i
                  [] last.status = "completed" ->
                        IF i + 1 < Len(record.steps) THEN i + 1 ELSE Undefined
                  [] last.status = "failed" -> Undefined

\* completing the last step of a record with several steps clears the index
C9_Witness ==
    /\ last.op = "writeStepStatus" /\ last.known
    /\ last.status = "completed"
    /\ last.stepIndex > 0
    /\ last.stepIndex + 1 = Len(store[last.planId].steps)
    /\ store[last.planId].currentStepIndex = Undefined

\* C10: writeStepStatus(in_progress) on step i resets every other in_progress
\* step to pending with startTime and endTime unset, leaves every other step as
\* it was, and completes normally: step i is in_progress and the progress event
\* is emitted.
C10_StaleReset ==
    [][(last'.op = "writeStepStatus" /\ last'.known /\ last'.status = "in_progress") =>
        LET old == store[last'.planId].steps
            new == store'[last'.planId].steps
        IN  /\ \A k \in 1..Len(old) :
                k # last'.stepIndex + 1 =>
                    IF old[k].status = "in_progress"
                    THEN new[k] = [old[k] EXCEPT !.status = "pending",
                                                 !.startTime = Undefined,
                                                 !.endTime = Undefined]
                    ELSE new[k] = old[k]
            /\ new[last'.stepIndex + 1].status = "in_progress"
            /\ out' = <<ProgressEvent(last'.planId, store'[last'.planId])>>]_vars

\* a step was started while one step was stale and another one finished
C10_Witness ==
    /\ last.op = "writeStepStatus" /\ last.known
    /\ last.status = "in_progress"
    /\ \E k \in last.stale :
        /\ store[last.planId].steps[k + 1].status = "pending"
        /\ store[last.planId].steps[k + 1].startTime = Undefined
    /\ \E k \in 1..Len(store[last.planId].steps) :
        /\ k # last.stepIndex + 1
        /\ store[last.planId].steps[k].status \in Terminal
        /\ store[last.planId].steps[k].endTime # Undefined

stepOf(k) == store[orch.planId].steps[k + 1]

\* runStep has returned failed or aborted
Halted == exec.result \in {"failed", "aborted"}

ProgressEvents(writes) ==
    {k \in 1..Len(writes) : writes[k].type = "data-plan-progress"}

\* C12: once a runStep call has returned failed or aborted, no later step is
\* started, the record no longer changes and no progress event is emitted: the
\* later steps are pending in the last snapshot; the loop is left by a return.
C12_HaltOnFailure ==
    /\ [](Halted =>
            /\ \A k \in (exec.stepIndex + 1)..(orch.n - 1) : stepOf(k).status = "pending"
            /\ orch.pc \in {"step", "done"})
    /\ [][Halted =>
            /\ store' = store
            /\ ProgressEvents(out') = {}
            /\ exec'.stepIndex = exec.stepIndex
            /\ exec'.pc \in {"returned", "idle"}
            /\ orch'.pc \in {"step", "done"}
            /\ (orch.pc = "done" => orch'.pc = "done")]_vars

\* the first of three steps failed and the loop was left
C12_Witness ==
    /\ orch.pc = "done" /\ orch.n = 3
    /\ exec.result = "failed" /\ exec.stepIndex = 0
    /\ ~signal
    /\ stepOf(0).status = "failed"
    /\ stepOf(1).status = "pending"
    /\ stepOf(2).status = "pending"

\* C13: steps of one plan never overlap: every status write is for the step the
\* loop is at, in_progress is written only while no runStep call is in flight
\* and after the step before it was written completed, and a terminal write is
\* for the step in_progress; the steps before are completed, the ones after pending.
C13_NoOverlap ==
    /\ [](orch.pc \in {"loop", "step", "done"} =>
            \A k \in 0..(orch.n - 1) :
                /\ k < orch.i => stepOf(k).status = "completed"
                /\ k > orch.i => stepOf(k).status = "pending")
    /\ [][(last'.op = "writeStepStatus") =>
            /\ last'.known
            /\ last'.planId = orch.planId
            /\ last'.stepIndex = orch.i
            /\ last'.status = "in_progress" =>
                /\ exec.pc = "idle"
                /\ Running(store[orch.planId]) = {}
                /\ orch.i > 0 => stepOf(orch.i - 1).status = "completed"
            /\ last'.status \in Terminal =>
                /\ exec.pc = "final"
                /\ Running(store[orch.planId]) = {orch.i + 1}]_vars

\* the second of three steps is streaming
C13_Witness ==
    /\ orch.pc = "step" /\ orch.n = 3 /\ orch.i = 1
    /\ exec.pc = "read" /\ exec.nread > 0
    /\ stepOf(0).status = "completed"
    /\ stepOf(1).status = "in_progress"
    /\ stepOf(2).status = "pending"

execStep == store[exec.planId].steps[exec.stepIndex + 1]

\* C15: in a 3-step plan whose first step's stream holds a tool-input event for
\* a forbidden tool, whatever follows it, the first step is stored failed with
\* an errorMessage naming that tool, and the other two steps stay pending.
C15_ForbiddenToolFails ==
    (/\ orch.n = 3 /\ exec.stepIndex = 0
     /\ exec.pc \in {"returned", "idle"} /\ orch.pc \in {"step", "loop", "done"}
     /\ exec.forbidden # NoTool)
    => /\ stepOf(0).status = "failed"
       /\ stepOf(0).errorMessage = forbiddenMessage(exec.forbidden)
       /\ stepOf(1).status = "pending"
       /\ stepOf(2).status = "pending"
       /\ orch.pc \in {"step", "done"}

\* C16: in a 3-step plan where the signal fires while the second step is
\* streaming, the final record has the first step completed, the second failed
\* with the aborted marker, and the third pending.
C16_AbortDuringSecondStep ==
    (/\ orch.n = 3 /\ orch.pc = "done"
     /\ orch.abortedAt = "read" /\ orch.abortedStep = 1)
    => /\ stepOf(0).status = "completed"
       /\ stepOf(1).status = "failed"
       /\ stepOf(1).errorMessage = ABORT_ERROR_MESSAGE
       /\ stepOf(2).status = "pending"

\* C17: when runStep returns aborted the step is stored failed with the marker
\* "aborted"; aborted is never a stored status; the marker is stored only when
\* the request was cancelled.
C17_AbortedMarker ==
    /\ \A planId \in DOMAIN store : \A k \in 1..Len(store[planId].steps) :
            store[planId].steps[k].status # "aborted"
    /\ (exec.pc = "returned" /\ exec.result = "aborted") =>
            /\ execStep.status = "failed"
            /\ execStep.errorMessage = ABORT_ERROR_MESSAGE
    /\ (exec.pc = "returned" /\ execStep.errorMessage = ABORT_ERROR_MESSAGE) => signal

\* C18: on the outline path and on the plan path the tools handed to runStep
\* hold none of outline, plan and progress, and the names taken out of the
\* capability set are the forbidden set of runStep.
C18_ForbiddenToolsExcluded ==
    toolset.path \in {"outline", "plan"} =>
        /\ toolset.tools \cap forbiddenTools = {}
        /\ toolset.tools = toolset.caps \ forbiddenTools

\* C19: an exception raised while runStep creates or reads the stream is
\* caught: the step is stored failed with the exception's message, and runStep
\* returns failed to the loop.
C19_ExceptionCaught ==
    /\ [][(last'.op \in {"streamOpenThrows", "readThrows"}) =>
            /\ exec'.pc = "final"
            /\ exec'.finalStatus = "failed"
            /\ exec'.finalErrorMessage = "stream failed"
            /\ orch' = orch]_vars
    /\ []((exec.pc = "final" /\ exec.finalErrorMessage = "stream failed") =>
            ENABLED Finalize)
    /\ []((exec.pc = "returned" /\ exec.finalErrorMessage = "stream failed") =>
            /\ exec.result = "failed"
            /\ execStep.status = "failed"
            /\ execStep.errorMessage = "stream failed"
            /\ orch.pc = "step")

\* the stream threw after it had delivered events, and runStep returned
C19_Witness ==
    /\ exec.pc = "returned" /\ exec.nread > 0
    /\ exec.result = "failed"
    /\ exec.finalErrorMessage = "stream failed"
    /\ execStep.status = "failed"
    /\ execStep.errorMessage = "stream failed"
    /\ execStep.endTime # Undefined

\* C20: when the stream delivers a tool-output-error, runStep returns failed,
\* the stored errorMessage is the error's text, and the step's model invocation
\* is cancelled.
C20_ToolErrorFails ==
    (exec.pc = "returned" /\ exec.toolError # NoMessage) =>
        /\ exec.result = "failed"
        /\ execStep.status = "failed"
        /\ execStep.errorMessage = exec.toolError
        /\ stepAbortFired(exec)

\* the status of step k (from 1) of a plan changes from a to b in this step
Moves(planId, k, a, b) ==
    /\ planId \in DOMAIN store /\ planId \in DOMAIN store'
    /\ k <= Len(store[planId].steps) /\ k <= Len(store'[planId].steps)
    /\ store[planId].steps[k].status = a
    /\ store'[planId].steps[k].status = b

\* the steps of the stored records
StoredSteps == {<<planId, k>> \in PlanIds \X (1..(MaxIndex + MaxOutlineSteps + 1)) :
                    planId \in DOMAIN store /\ k <= Len(store[planId].steps)}

\* C28: in an orchestrated run the status history of a step is a prefix of
\* pending, in_progress, completed or failed: in_progress is written only on a
\* pending step, a terminal status only on the step in_progress, and no other
\* status change happens.
C28_StepHistory ==
    /\ [][\A e \in StoredSteps : \A a, b \in Statuses :
            Moves(e[1], e[2], a, b) =>
                \/ a = b
                \/ a = "pending" /\ b = "in_progress"
                \/ a = "in_progress" /\ b \in Terminal]_vars
    /\ [][(last'.op = "writeStepStatus") =>
            /\ last'.status = "in_progress" =>
                    store[last'.planId].steps[last'.stepIndex + 1].status = "pending"
            /\ last'.status \in Terminal =>
                    store[last'.planId].steps[last'.stepIndex + 1].status = "in_progress"]_vars

\* a run of three steps that ended with completed, failed, pending
C28_Witness ==
    /\ orch.pc = "done" /\ orch.n = 3
    /\ stepOf(0).status = "completed"
    /\ stepOf(1).status = "failed"
    /\ stepOf(2).status = "pending"
    /\ stepOf(1).startTime # Undefined
    /\ exec.writes = <<"in_progress", "failed">>

\* C29: a step an orchestrated run leaves failed has a defined errorMessage,
\* and a completed or in_progress step has none.
C29_ErrorMessagePresence ==
    \A e \in StoredSteps :
        LET step == store[e[1]].steps[e[2]]
        IN  /\ step.status = "failed" => step.errorMessage # NoMessage
            /\ step.status \in {"completed", "in_progress", "pending"} =>
                    step.errorMessage = NoMessage

\* a failed step after a completed one, the next one running never
C29_Witness ==
    /\ orch.pc = "done" /\ orch.n = 3
    /\ stepOf(0).status = "completed" /\ stepOf(0).errorMessage = NoMessage
    /\ stepOf(1).status = "failed" /\ stepOf(1).errorMessage = "tool failed"
    /\ exec.toolError = "tool failed"

\* C30: under any sequence of writeStepStatus calls a step that is completed or
\* failed never changes status again, and a started step returns to pending
\* only when a stale in_progress entry is cleared.
C30_WriterMonotonic ==
    [][\A e \in StoredSteps : \A a, b \in Statuses :
        Moves(e[1], e[2], a, b) =>
            /\ a \in Terminal => b = a
            /\ (a # "pending" /\ b = "pending") =>
                    /\ a = "in_progress"
                    /\ last'.op = "writeStepStatus"
                    /\ last'.status = "in_progress"
                    /\ last'.stepIndex + 1 # e[2]]_vars

\* the rules of the outline quality check, stated on the outline
WellFormedOutline(outline) ==
    /\ outline.titleLength # Undefined /\ outline.titleLength >= 2
    /\ outline.hasSteps
    /\ Len(outline.steps) >= 2 /\ Len(outline.steps) <= 15
    /\ \A k \in 1..Len(outline.steps) :
        LET step == outline.steps[k]
        IN  /\ step.titleLength # Undefined
            /\ step.titleLength >= 2 /\ step.titleLength <= 50
            /\ step.hasDependsOn =>
                \A m \in 1..Len(step.dependsOn) :
                    0 <= step.dependsOn[m] /\ step.dependsOn[m] < k - 1

\* C27: validateOutline returns valid = true exactly when the title has at
\* least 2 characters, there are 2..15 steps, every step title has 2..50
\* characters and every dependsOn entry d of the step at index k has
\* 0 <= d < k; otherwise valid = false and the error list is not empty.
C27_ValidateOutline ==
    validated.pc = "returned" =>
        /\ validated.result.valid <=> WellFormedOutline(validated.outline)
        /\ validated.result.valid <=> (validated.result.errors = <<>>)

\* a valid outline of 15 steps whose third step depends on the two before it
C27_Witness ==
    /\ validated.pc = "returned"
    /\ validated.result.valid
    /\ Len(validated.outline.steps) = 15
    /\ validated.outline.steps[3].hasDependsOn
    /\ validated.outline.steps[3].dependsOn = <<0, 1>>
    /\ validated.outline.steps[3].titleLength = 50

\* a runStep call is in flight
InFlight == exec.pc \in {"open", "read", "final"}

\* C24: cancellation goes from parent to child only: when the request signal
\* fires, the controller of the step in flight and of a running outline
\* generation are aborted; when a step aborts its own controller, or the
\* outline generation its own, the request signal and the other controller
\* stay as they are, and the controller of the next step starts out not aborted.
C24_AbortPropagation ==
    /\ [][(signal' /\ ~signal) =>
            /\ (InFlight /\ exec.linked) => (stepAbortFired(exec))'
            /\ (gen.pc = "read" /\ exec.linked) => (outlineAbortFired(gen))']_vars
    /\ [][(exec'.ownAbort /\ ~exec.ownAbort) =>
            /\ signal' = signal
            /\ gen' = gen
            /\ (outlineAbortFired(gen))' = outlineAbortFired(gen)]_vars
    /\ [][(gen'.ownAbort /\ ~gen.ownAbort) =>
            /\ signal' = signal
            /\ exec' = exec
            /\ (stepAbortFired(exec))' = stepAbortFired(exec)]_vars
    /\ [](stepAbortFired(exec) => (exec.ownAbort \/ signal))
    /\ [][(exec.pc = "idle" /\ exec'.pc = "open") => ~(stepAbortFired(exec))']_vars

\* the request was cancelled while a step whose controller had not been
\* aborted was reading, after the outline generation had aborted its own
C24_Witness ==
    /\ last.op = "abort"
    /\ exec.pc = "read" /\ exec.linked /\ ~exec.ownAbort
    /\ gen.ownAbort
    /\ stepAbortFired(exec)
    /\ orch.abortedAt = "read"

\* C25: outline generation takes the first outline tool input that parses,
\* aborts the call and reads no more; other events and inputs that do not
\* parse are skipped; when the stream ends with nothing taken, no snapshot is
\* written, no step runs, and the request handler makes the unscoped call.
C25_OutlineGeneration ==
    /\ [][(last'.op = "outlineRead") =>
            IF last'.type = "tool-input-available" /\ last'.toolName = "outline"
               /\ last'.parsed
            THEN /\ gen'.pc = "parsed"
                 /\ gen'.ownAbort
                 /\ (outlineAbortFired(gen))'
                 /\ gen'.outlineId \in SnapshotIds
            ELSE /\ gen'.pc = "read"
                 /\ gen'.outlineId = NoPlan
                 /\ ~gen'.ownAbort
                 /\ store' = store /\ orch' = orch /\ exec' = exec]_vars
    /\ [][gen.pc # "read" => gen'.nread = gen.nread]_vars
    /\ []((gen.pc \in {"declined", "unscoped"}) =>
            /\ store = <<>> /\ emittedPlanIds = {}
            /\ \A p \in PlanIds : snapshotWrites[p] = 0
            /\ orch.pc = "idle" /\ exec.pc = "idle")
    /\ []((gen.pc = "declined" /\ exec.impl = "route") => ENABLED GenFallback)
    /\ [][(gen.pc = "declined" /\ exec.impl = "route") =>
            gen'.pc \in {"declined", "unscoped"}]_vars

\* an outline was taken after two events were skipped
C25_Witness ==
    /\ gen.pc = "parsed" /\ gen.nread = 3
    /\ gen.ownAbort
    /\ gen.outlineId \in SnapshotIds
    /\ store = <<>>

\* C26: an outline that fails validateOutline is accepted all the same: a
\* 1-step outline is reported invalid with the step-count error, its snapshot
\* has one pending entry per step, and its steps are run.
C26_InvalidOutlineRuns ==
    /\ []((gen.pc = "parsed") => ENABLED GenAccept)
    /\ [][(gen.pc = "parsed" /\ gen' # gen) =>
            /\ gen'.pc = "accepted"
            /\ gen'.valid = validateOutline(outlineOf(gen)).valid
            /\ gen.steps < 2 =>
                /\ ~gen'.valid
                /\ \E m \in 1..Len(validateOutline(outlineOf(gen)).errors) :
                        validateOutline(outlineOf(gen)).errors[m].kind = "min steps"
            /\ orch'.pc = "loop" /\ orch'.n = gen.steps /\ orch'.i = 0
            /\ gen.outlineId \in DOMAIN store'
            /\ store'[gen.outlineId].steps = [k \in 1..gen.steps |-> PendingStep]
            /\ \E k \in 1..Len(out') : out'[k].type = "data-outline"]_vars
    /\ []((gen.pc = "accepted" /\ orch.pc = "loop" /\ orch.i < orch.n
           /\ exec.pc = "idle" /\ ~signal) => ENABLED RunStepBegin)

\* a 1-step outline with a good title was accepted and its step completed
C26_Witness ==
    /\ gen.pc = "accepted" /\ gen.steps = 1 /\ ~gen.valid
    /\ gen.titleLength >= 2
    /\ orch.pc = "done" /\ orch.n = 1
    /\ stepOf(0).status = "completed"
    /\ exec.result = "completed"


\* ---------------------------------------------------------------------------
\* Text of a step
\* ---------------------------------------------------------------------------

\* C21: the output runStep returns is the trimmed concatenation of the text
\* deltas received when the status is completed, and is empty when the status
\* is failed or aborted.
C21_OutputByStatus ==
    exec.pc = "returned" =>
        IF exec.result = "completed"
        THEN text.textOutput = trim(text.received)
        ELSE text.textOutput = <<>>


\* the events of the last pass written to the primary channel as they came
RawWrites(type) == {k \in 1..Len(out) : out[k].type = type}

AssistantWrites ==
    {k \in 1..Len(out) : out[k].type = "data-plan-step-output"
                          /\ out[k].data.toolName = "assistant"}

\* C22: a text-delta event of a step that is not the last is never written to
\* the primary channel; a text-delta event of the last step is forwarded to it
\* as it came and produces no assistant step-output event; the only step of a
\* one-step plan is the last.
C22_TextDeltaRouting ==
    /\ (last.op = "readEvent" /\ last.type = "text-delta") =>
           IF exec.emitText
           THEN /\ Cardinality(RawWrites("text-delta")) = 1
                /\ \A k \in RawWrites("text-delta") : out[k].data.type = "text-delta"
                /\ AssistantWrites = {}
           ELSE RawWrites("text-delta") = {}
    /\ (exec.pc # "idle" /\ orch.n = 1) => exec.emitText


\* one assistant message per output that is not empty, in order
AssistantMessages(outs) ==
    LET kept == SelectSeq(outs, LAMBDA o : Len(o) > 0)
    IN  [k \in 1..Len(kept) |-> [role |-> "assistant", text |-> kept[k]]]

\* C23: the context passed to step i is the original conversation followed by
\* the outputs of steps 0 to i-1, one assistant message per step in step
\* order, empty outputs skipped; the output of a step that did not complete is
\* never appended, and the message list of the request is not modified.
C23_StepContext ==
    /\ [](exec.pc # "idle" =>
             /\ Len(text.outputs) = exec.stepIndex
             /\ text.context = Conversation \o AssistantMessages(text.outputs))
    /\ [](text.messages = Conversation)
    /\ [][(exec.pc = "returned" /\ exec.result # "completed")
             => text'.stepMessages = text.stepMessages]_vars

\* step 2 runs on the outputs of steps 0 and 1, the first of them empty
C23_Witness ==
    /\ exec.pc = "read" /\ exec.stepIndex = 2
    /\ text.outputs[1] = <<>> /\ text.outputs[2] # <<>>
    /\ Len(text.context) = Len(Conversation) + 1

\* ---------------------------------------------------------------------------
\* Cancellation inside a step
\* ---------------------------------------------------------------------------

\* C31: once runStep has received a tool-input event naming outline, plan or
\* progress, the step's own abort controller is aborted: from that event on,
\* before any later event is handled.
C31_ForbiddenToolCancels ==
    (exec.pc \in {"read", "final", "returned"} /\ exec.forbidden # NoTool)
        => exec.ownAbort

\* ---------------------------------------------------------------------------
\* Text of a step that is not the last
\* ---------------------------------------------------------------------------

\* C32: for a step that does not emit text, however the read loop ends (end of
\* stream, break, or a read that throws), the assistant step-output payloads
\* written, concatenated in order, are the text deltas received, concatenated
\* in order.
C32_NoDeltaLost ==
    (exec.pc \in {"final", "returned"} /\ ~exec.emitText)
        => text.emitted = text.received

\* C33: cancellation is checked after each event runStep receives, of every
\* kind: an event received once the signal runStep was given has fired, a text
\* delta of a step that is not the last included, ends the reading with the
\* status aborted.
C33_AbortCheckedAfterEachEvent ==
    [][(exec.pc = "read" /\ exec.linked /\ signal /\ exec'.nread = exec.nread + 1)
          => (exec'.pc = "final" /\ exec'.finalStatus = "aborted")]_vars

\* ---------------------------------------------------------------------------
\* PlanProgressTracker in explicit mode
\* ---------------------------------------------------------------------------

\* the step after a tool name has been appended to its toolCalls
withToolCall(step, toolName) ==
    [step EXCEPT !.toolCalls = Append(IF @ = NoCalls THEN <<>> ELSE @, toolName)]

\* the steps of a record that differ between this state and the next
changedSteps(planId) ==
    {k \in 1..Len(store[planId].steps) : store'[planId].steps[k] # store[planId].steps[k]}

\* C34: once the tracker has applied an explicit progress update, the input
\* and the output of a tool other than progress change no step's status or
\* endTime; all they do to the record is append the tool name to the toolCalls
\* of an in_progress step.
C34_NoAutoCompletion ==
    [][(tracker.isExplicitMode /\ last'.op \in {"trackTool", "trackOutput"})
          => \A planId \in DOMAIN store :
                /\ planId \in DOMAIN store'
                /\ Len(store'[planId].steps) = Len(store[planId].steps)
                /\ store'[planId].currentStepIndex = store[planId].currentStepIndex
                /\ Cardinality(changedSteps(planId)) <= 1
                /\ \A k \in changedSteps(planId) :
                      /\ store[planId].steps[k].status = "in_progress"
                      /\ store'[planId].steps[k] =
                            withToolCall(store[planId].steps[k], last'.toolName)]_vars

\* the tracker's test: progress(in_progress), then the input and the output of
\* search; the step is still in_progress with no endTime and search recorded
C34_Witness ==
    /\ last.op = "trackOutput" /\ last.toolName = "search"
    /\ tracker.isExplicitMode
    /\ Len(out) = 1
    /\ \E planId \in DOMAIN store : \E k \in 1..Len(store[planId].steps) :
          /\ store[planId].steps[k].status = "in_progress"
          /\ store[planId].steps[k].endTime = Undefined
          /\ store[planId].steps[k].toolCalls = <<"search">>

\* the actions of the last progress update that are labelled error, whatever the case
errorActions == {k \in 1..Len(last.actions) : last.actions[k].label \in {"error", "Error"}}

\* the step the last progress update was applied to
updatedStep == store[last.planId].steps[last.stepIndex + 1]

FailedUpdate == last.op = "trackProgress" /\ last.applied /\ last.status = "failed"

\* C35 as stated: a failed progress update stores the status failed and, as
\* errorMessage, the value of the action labelled error, otherwise the value
\* of the first action, and undefined when there are no actions.
C35_Original ==
    FailedUpdate =>
        /\ updatedStep.status = "failed"
        /\ updatedStep.errorMessage =
              IF last.actions = NoActions \/ last.actions = <<>> THEN NoMessage
              ELSE IF errorActions # {}
              THEN last.actions[CHOOSE k \in errorActions : \A j \in errorActions : k <= j].value
              ELSE last.actions[1].value

\* C35 amended: the errorMessage is the value of the first action labelled
\* error when that action has a value, otherwise the value of the first action,
\* and undefined when there are no actions.
C35_ErrorFromActions ==
    FailedUpdate =>
        /\ updatedStep.status = "failed"
        /\ LET valued == {k \in errorActions :
                            /\ \A j \in errorActions : k <= j
                            /\ last.actions[k].value # NoMessage}
           IN  updatedStep.errorMessage =
                  IF last.actions = NoActions \/ last.actions = <<>> THEN NoMessage
                  ELSE IF valued # {} THEN last.actions[CHOOSE k \in valued : TRUE].value
                  ELSE last.actions[1].value

\* the tracker's test: a failed update whose second action is labelled Error
C35_Witness ==
    /\ FailedUpdate
    /\ Len(last.actions) = 2
    /\ updatedStep.errorMessage = "boom"

\* C36: the store shared with PlanProgressTracker keeps at most one step
\* in_progress per record, after any sequence of explicit progress updates
\* applied by trackInput.
C36_TrackerSingleInProgress ==
    orch.pc # "writer" =>
        \A planId \in DOMAIN store : Cardinality(Running(store[planId])) <= 1

\* C37: in a step that does not emit text, after any stream event has been
\* handled the buffer holds at most 20 characters and no newline, however long
\* the stream is.
C37_BufferBounded ==
    (exec.pc \in {"read", "final", "returned"} /\ ~exec.emitText)
        => /\ Len(text.textBuffer) <= flushLength
           /\ ~includesNewline(text.textBuffer)

\* the buffer was written out because it had grown past 20 characters, and is
\* empty again
C37_Witness ==
    /\ exec.pc = "read" /\ ~exec.emitText
    /\ Len(text.emitted) > flushLength
    /\ ~includesNewline(text.emitted)
    /\ text.textBuffer = <<>>

\* ---------------------------------------------------------------------------
\* The progress snapshots of a whole run
\* ---------------------------------------------------------------------------

\* the snapshot of an n-step plan with j steps completed, step j in_progress
\* when running, and the given currentStepIndex
midRun(n, j, running, index) ==
    [statuses |-> [k \in 1..n |-> IF k <= j THEN "completed"
                                  ELSE IF k = j + 1 /\ running THEN "in_progress"
                                  ELSE "pending"],
     currentStepIndex |-> index]

\* the progress snapshots of a run of n steps that all complete: all pending,
\* then for each step its in_progress snapshot and its completed snapshot
completedRun(n) ==
    [m \in 1..(1 + 2 * n) |->
        IF m = 1 THEN midRun(n, 0, FALSE, 0)
        ELSE IF m % 2 = 0 THEN midRun(n, (m \div 2) - 1, TRUE, (m \div 2) - 1)
        ELSE midRun(n, m \div 2, FALSE, IF m \div 2 < n THEN m \div 2 ELSE Undefined)]

AllCompleted ==
    /\ orch.pc = "done" /\ orch.n >= 1 /\ ~signal
    /\ \A k \in 0..(orch.n - 1) : stepOf(k).status = "completed"

\* C38: when every step of an n-step plan (n >= 1) completes and nothing is
\* cancelled, the run ends with all steps completed and currentStepIndex
\* undefined, having emitted exactly 1 + 2n progress snapshots: all pending with
\* currentStepIndex 0, then per step in_progress followed by completed.
C38_SnapshotsOfCompletedRun ==
    AllCompleted =>
        /\ store[orch.planId].currentStepIndex = Undefined
        /\ Len(store[orch.planId].steps) = orch.n
        /\ Len(orch.progressLog) = 1 + 2 * orch.n
        /\ orch.progressLog = completedRun(orch.n)

\* a run of three steps that all completed
C38_Witness ==
    /\ AllCompleted
    /\ orch.n = 3
    /\ Len(orch.progressLog) = 7

\* ---------------------------------------------------------------------------
\* Times and index of a record under writeStepStatus
\* ---------------------------------------------------------------------------

\* C39: under a clock that never goes back, after any sequence of
\* writeStepStatus calls every step with both a startTime and an endTime has
\* startTime <= endTime, and currentStepIndex, when defined, is the index of a
\* step of the record.
C39_TimesOrdered ==
    \A planId \in DOMAIN store :
        /\ \A k \in 1..Len(store[planId].steps) :
              (/\ store[planId].steps[k].startTime # Undefined
               /\ store[planId].steps[k].endTime # Undefined)
              => store[planId].steps[k].startTime <= store[planId].steps[k].endTime
        /\ store[planId].currentStepIndex # Undefined
              => store[planId].currentStepIndex \in 0..(Len(store[planId].steps) - 1)

\* a step that ended after it started, in a record whose currentStepIndex is
\* defined
C39_Witness ==
    \E planId \in DOMAIN store : \E k \in 1..Len(store[planId].steps) :
        /\ store[planId].steps[k].startTime # Undefined
        /\ store[planId].steps[k].endTime > store[planId].steps[k].startTime
        /\ store[planId].currentStepIndex # Undefined

\* ---------------------------------------------------------------------------
\* An outline without steps
\* ---------------------------------------------------------------------------

\* an outline of zero steps has been accepted
EmptyOutline == gen.pc = "accepted" /\ orch.n = 0

====
